---- MODULE Spec2Model ----
(***************************************************************************)
(* kakei-analytics: the ledger import and balance-reconciliation pipeline. *)
(*                                                                         *)
(*   csv-parser.ts          parseCombinedReport, parseAssetReport,         *)
(*                          aggregateAssetSnapshots, inferAssetType        *)
(*   app/api/import         POST: delete-period / insert / upsert          *)
(*   app/api/investment     POST: valuation save into asset_snapshots      *)
(*                                                                         *)
(* Text.  A JavaScript string is a sequence of symbols.  A symbol is one   *)
(* character ("0".."9", ",", "-", "\"", " ", "\n", "\r") or an ASCII name  *)
(* standing for a character or word of the export that the parser only     *)
(* ever compares as a whole:                                               *)
(*     "BOM"  U+FEFF      "nen"  年      "gatsu"  月      "nichi"  日       *)
(*     "shishutsu" 支出   "shunyu" 収入  "furikae" 振替   "namae" 名前      *)
(*     "shokuhi" 食費     "kyuyo" 給与   "sonota" その他  "ranchi" ランチ   *)
(*     "iDeCo" iDeCo      "toushin" 投資信託   "/" /      "SBI" SBI        *)
(*     "mitsubishi" 三菱  "ginko" 銀行   "kaado" カード   "genkin" 現金     *)
(*     "shokizandaka" 初期残高   "__asset_report__" the sentinel memo      *)
(*     "x" any other letter                                                *)
(***************************************************************************)
EXTENDS Integers, Sequences, FiniteSets, Bags, TLC

VARIABLES
    transactions,     \* table transactions: a bag of rows (ids, created_at left out)
    assetSnapshots,   \* table asset_snapshots: a set of rows (ids, updated_at left out)
    req,              \* the import request in flight: POST /api/import
    investmentValuations, \* table investment_valuations: a set of rows
    val,              \* the valuation save in flight: POST /api/investment
    admitted,         \* requests started, counted where a specification bounds them
    hist,             \* observer: tables at request start, the last finished request
    call,             \* a call of a pure function of csv-parser.ts: input and output
    parked,           \* a second import request in flight, waiting at an await
    geminiUsage,      \* table gemini_usage: a set of rows (updated_at left out)
    analyses          \* the calls of analyzeWithGemini in flight, by caller

vars ==
    <<transactions, assetSnapshots, investmentValuations, req, val, admitted, hist, call,
      parked, geminiUsage, analyses>>

\* the state of the Gemini utility
gemini == <<geminiUsage, analyses>>

----------------------------------------------------------------------------
(* Strings *)

Digits == {"0", "1", "2", "3", "4", "5", "6", "7", "8", "9"}

DigitVal(c) ==
    CASE c = "0" -> 0 [] c = "1" -> 1 [] c = "2" -> 2 [] c = "3" -> 3
      [] c = "4" -> 4 [] c = "5" -> 5 [] c = "6" -> 6 [] c = "7" -> 7
      [] c = "8" -> 8 [] c = "9" -> 9

DigitChar(n) ==
    <<"0", "1", "2", "3", "4", "5", "6", "7", "8", "9">>[n + 1]

\* what String.prototype.trim strips
WhiteSpace == {" ", "\t", "\n", "\r", "BOM"}

RECURSIVE trimStart(_)
trimStart(s) ==
    IF s # <<>> /\ Head(s) \in WhiteSpace THEN trimStart(Tail(s)) ELSE s

RECURSIVE trimEnd(_)
trimEnd(s) ==
    IF s # <<>> /\ s[Len(s)] \in WhiteSpace
    THEN trimEnd(SubSeq(s, 1, Len(s) - 1)) ELSE s

trim(s) == trimEnd(trimStart(s))

\* s.slice(a, b) for 0 <= a <= b, zero-based, end exclusive
slice(s, a, b) ==
    SubSeq(s, a + 1, IF b > Len(s) THEN Len(s) ELSE b)

\* v.replace(/,/g, "")
RECURSIVE removeCommas(_)
removeCommas(s) ==
    IF s = <<>> THEN <<>>
    ELSE IF Head(s) = "," THEN removeCommas(Tail(s))
    ELSE <<Head(s)>> \o removeCommas(Tail(s))

\* the leading run of decimal digits of s
RECURSIVE digitPrefix(_)
digitPrefix(s) ==
    IF s # <<>> /\ Head(s) \in Digits
    THEN <<Head(s)>> \o digitPrefix(Tail(s)) ELSE <<>>

RECURSIVE digitsValue(_)
digitsValue(d) ==
    IF d = <<>> THEN 0
    ELSE 10 * digitsValue(SubSeq(d, 1, Len(d) - 1)) + DigitVal(d[Len(d)])

\* parseInt(s, 10): [nan |-> TRUE] or [nan |-> FALSE, n |-> the integer]
parseInt(s) ==
    LET t == trimStart(s)
        neg == t # <<>> /\ Head(t) = "-"
        u == IF t # <<>> /\ Head(t) \in {"-", "+"} THEN Tail(t) ELSE t
        d == digitPrefix(u)
    IN  IF d = <<>> THEN [nan |-> TRUE, n |-> 0]
        ELSE [nan |-> FALSE, n |-> IF neg THEN 0 - digitsValue(d) ELSE digitsValue(d)]

\* String(n) for n >= 0
RECURSIVE String(_)
String(n) ==
    IF n < 10 THEN <<DigitChar(n)>>
    ELSE String(n \div 10) \o <<DigitChar(n % 10)>>

\* s.padStart(2, "0")
padStart2(s) == IF Len(s) < 2 THEN <<"0">> \o s ELSE s

\* the order of Array.prototype.sort() on the symbols a key is made of
CodeUnit(c) == IF c = "-" THEN 0 ELSE 1 + DigitVal(c)

\* a < b as JavaScript strings
RECURSIVE StringLess(_, _)
StringLess(a, b) ==
    IF b = <<>> THEN FALSE
    ELSE IF a = <<>> THEN TRUE
    ELSE IF Head(a) = Head(b) THEN StringLess(Tail(a), Tail(b))
    ELSE CodeUnit(Head(a)) < CodeUnit(Head(b))

----------------------------------------------------------------------------
(* csv-parser.ts *)

\* the value of a column that is not there: cols[6] of a row of six columns
Undefined == <<"<undefined>">>

\* parseJapaneseDate, the match of /(\d{4})年(\d{2})月(\d{2})日/ at offset i
DateAt(raw, i) ==
    /\ i + 10 <= Len(raw)
    /\ \A k \in {0, 1, 2, 3, 5, 6, 8, 9} : raw[i + k] \in Digits
    /\ raw[i + 4] = "nen"
    /\ raw[i + 7] = "gatsu"
    /\ raw[i + 10] = "nichi"

parseJapaneseDate(raw) ==
    LET at == {i \in 1..Len(raw) : DateAt(raw, i)}
    IN  IF at = {} THEN <<>>
        ELSE LET i == CHOOSE j \in at : \A k \in at : j <= k
             IN  SubSeq(raw, i, i + 3) \o <<"-">> \o SubSeq(raw, i + 5, i + 6)
                   \o <<"-">> \o SubSeq(raw, i + 8, i + 9)

\* raw.match(/^\d{4}年/)
startsWithYear(raw) ==
    /\ Len(raw) >= 5
    /\ \A k \in 1..4 : raw[k] \in Digits
    /\ raw[5] = "nen"

toInt(v) ==
    LET n == parseInt(removeCommas(v))
    IN  IF n.nan THEN 0 ELSE n.n

\* .replace(/\r\n/g, "\n").replace(/\r/g, "\n").split("\n"): the text is cut at
\* every CR LF pair, every other CR and every other LF
RECURSIVE splitOnNewline(_)
splitOnNewline(s) ==
    LET breaks == {i \in 1..Len(s) : s[i] \in {"\r", "\n"}} IN
    IF breaks = {} THEN <<s>>
    ELSE LET i == CHOOSE k \in breaks : \A l \in breaks : k <= l
             j == IF s[i] = "\r" /\ i < Len(s) /\ s[i + 1] = "\n" THEN i + 1 ELSE i
         IN  <<SubSeq(s, 1, i - 1)>> \o splitOnNewline(SubSeq(s, j + 1, Len(s)))

splitLines(text) ==
    LET noBom == IF text # <<>> /\ Head(text) = "BOM" THEN Tail(text) ELSE text
    IN  splitOnNewline(noBom)

\* the loop of parseCSVLine from index i (one-based) on
RECURSIVE csvScan(_, _, _, _, _)
csvScan(line, i, current, inQuote, fields) ==
    IF i > Len(line) THEN Append(fields, trim(current))
    ELSE LET ch == line[i] IN
         IF ch = "\""
         THEN IF inQuote /\ i + 1 <= Len(line) /\ line[i + 1] = "\""
              THEN csvScan(line, i + 2, Append(current, "\""), inQuote, fields)
              ELSE csvScan(line, i + 1, current, ~inQuote, fields)
         ELSE IF ch = "," /\ ~inQuote
         THEN csvScan(line, i + 1, <<>>, inQuote, Append(fields, trim(current)))
         ELSE csvScan(line, i + 1, Append(current, ch), inQuote, fields)

parseCSVLine(line) == csvScan(line, 1, <<>>, FALSE, <<>>)

\* the flag read the wrong way round: "-" taken to mean excluded
excludeFromPlOfDash(excludeRaw) == excludeRaw = <<"-">>

\* excludeRaw !== "-"
excludeFromPlOf(excludeRaw) == excludeRaw # <<"-">>

\* the body of the loop of parseCombinedReport for one line: the records it pushes
combinedRow(line, fromYear) ==
    IF trim(line) = <<>> THEN <<>>
    ELSE LET cols == parseCSVLine(line) IN
    IF Len(cols) < 11 THEN <<>>
    ELSE LET rawDate == cols[1] IN
    IF ~startsWithYear(rawDate) THEN <<>>
    ELSE LET dateStr == parseJapaneseDate(rawDate) IN
    IF dateStr = <<>> THEN <<>>
    ELSE LET year == parseInt(slice(dateStr, 0, 4)).n
             month == parseInt(slice(dateStr, 5, 7)).n
         IN
    IF year < fromYear THEN <<>>
    ELSE LET expenseAmount == toInt(cols[6])
             incomeAmount == toInt(cols[7])
         IN  << [ date |-> dateStr,
                  year |-> year,
                  month |-> month,
                  type |-> trim(cols[2]),
                  category |-> trim(cols[3]),
                  itemName |-> trim(cols[4]),
                  amount |-> IF expenseAmount # 0 THEN expenseAmount ELSE incomeAmount,
                  expenseAmount |-> expenseAmount,
                  incomeAmount |-> incomeAmount,
                  assetName |-> trim(cols[8]),
                  tag |-> trim(cols[9]),
                  memo |-> trim(cols[10]),
                  excludeFromPl |-> excludeFromPlOf(cols[11]) ] >>

RECURSIVE combinedRows(_, _)
combinedRows(lines, fromYear) ==
    IF lines = <<>> THEN <<>>
    ELSE combinedRow(Head(lines), fromYear) \o combinedRows(Tail(lines), fromYear)

parseCombinedReport(csvText, fromYear) ==
    combinedRows(splitLines(csvText), fromYear)

\* cols[6] of parseAssetReport: the seventh column, undefined in a row of six
balanceColumn(cols) == IF Len(cols) >= 7 THEN cols[7] ELSE Undefined

\* a cursor that is set once and never moves on
currentAssetAfterFirst(col0, currentAsset) ==
    IF currentAsset # <<>> THEN currentAsset
    ELSE IF col0 # <<>> /\ ~startsWithYear(col0) THEN col0 ELSE currentAsset

\* if (col0 && !col0.match(/^\d{4}年/)) currentAsset = col0: the cursor after a row
currentAssetAfter(col0, currentAsset) ==
    IF col0 # <<>> /\ ~startsWithYear(col0) THEN col0 ELSE currentAsset

\* The body of the loop of parseAssetReport for one line, from the cursor
\* currentAsset: the cursor after the line, the records pushed, and whether the
\* line raised (toInt of an undefined column: v.replace is not a function of
\* undefined, a TypeError).
assetRow(line, currentAsset, fromYear) ==
    LET skip == [currentAsset |-> currentAsset, rows |-> <<>>, threw |-> FALSE] IN
    IF trim(line) = <<>> THEN skip
    ELSE LET cols == parseCSVLine(line) IN
    IF Len(cols) < 6 THEN skip
    ELSE LET col0 == trim(cols[1])
             col1 == trim(cols[2])
         IN
    IF col0 = <<"namae">> THEN skip
    ELSE LET asset == currentAssetAfter(col0, currentAsset)
             next == [currentAsset |-> asset, rows |-> <<>>, threw |-> FALSE]
             balanceRaw == balanceColumn(cols)
         IN
    IF asset = <<>> THEN next
    ELSE IF col1 = <<"-">> /\ cols[3] = <<"-">>
    THEN IF balanceRaw = Undefined THEN [next EXCEPT !.threw = TRUE]
         ELSE [next EXCEPT !.rows =
                 << [ assetName |-> asset, date |-> <<>>, year |-> 0, month |-> 0,
                      type |-> <<"initial">>, category |-> <<>>,
                      itemName |-> <<"shokizandaka">>, amount |-> 0,
                      balance |-> toInt(balanceRaw), isInitial |-> TRUE ] >>]
    ELSE IF ~startsWithYear(col1) THEN next
    ELSE LET dateStr == parseJapaneseDate(col1) IN
    IF dateStr = <<>> THEN next
    ELSE LET year == parseInt(slice(dateStr, 0, 4)).n
             month == parseInt(slice(dateStr, 5, 7)).n
         IN
    IF year < fromYear THEN next
    ELSE IF balanceRaw = Undefined THEN [next EXCEPT !.threw = TRUE]
    ELSE [next EXCEPT !.rows =
            << [ assetName |-> asset, date |-> dateStr, year |-> year, month |-> month,
                 type |-> trim(cols[3]), category |-> trim(cols[4]),
                 itemName |-> trim(cols[5]), amount |-> toInt(cols[6]),
                 balance |-> toInt(balanceRaw), isInitial |-> FALSE ] >>]

RECURSIVE assetRows(_, _, _, _)
assetRows(lines, currentAsset, results, fromYear) ==
    IF lines = <<>> THEN [threw |-> FALSE, rows |-> results]
    ELSE LET r == assetRow(Head(lines), currentAsset, fromYear) IN
         IF r.threw THEN [threw |-> TRUE, rows |-> <<>>]
         ELSE assetRows(Tail(lines), r.currentAsset, results \o r.rows, fromYear)

\* [threw |-> TRUE] when the call raises, else the list it returns in rows
parseAssetReport(csvText, fromYear) ==
    assetRows(splitLines(csvText), <<>>, <<>>, fromYear)

\* name matches /k1|k2|.../: one of the keywords occurs in it
matches(name, keywords) == \E i \in 1..Len(name) : name[i] \in keywords

\* the rules in another order: the bank names tested first
inferAssetTypeBankFirst(name) ==
    IF matches(name, {"yucho", "mitsubishi", "SBI", "rokin", "mizuho", "risona",
                      "osakashoko", "ginko", "kinko"})
    THEN "bank"
    ELSE IF matches(name, {"kaado", "kureka", "NICOS", "kariire", "roon", "miharaikin"})
    THEN "credit"
    ELSE IF matches(name, {"shoken", "iDeCo", "toushin", "MMF", "kabu", "ETF"})
    THEN "investment"
    ELSE IF matches(name, {"PASMO", "suica", "Suica", "IC"}) THEN "ic_card"
    ELSE IF matches(name, {"PayPay", "LINE Pay", "hachipei", "merupei", "pei"})
    THEN "qr_pay"
    ELSE IF matches(name, {"genkin", "osaifu", "saifu", "futo", "seisanyo"}) THEN "cash"
    ELSE "other"

inferAssetType(name) ==
    IF matches(name, {"kaado", "kureka", "NICOS"}) THEN "credit"
    ELSE IF matches(name, {"kariire", "roon", "miharaikin"}) THEN "credit"
    ELSE IF matches(name, {"shoken", "iDeCo", "toushin", "MMF", "kabu", "ETF"})
    THEN "investment"
    ELSE IF matches(name, {"PASMO", "suica", "Suica", "IC"}) THEN "ic_card"
    ELSE IF matches(name, {"PayPay", "LINE Pay", "hachipei", "merupei", "pei"})
    THEN "qr_pay"
    ELSE IF matches(name, {"genkin", "osaifu", "saifu", "futo", "seisanyo"}) THEN "cash"
    ELSE IF matches(name, {"yucho", "mitsubishi", "SBI", "rokin", "mizuho", "risona",
                           "osakashoko", "ginko", "kinko"})
    THEN "bank"
    ELSE "other"

\* a list in place of the Map: a key set again is kept again
insertionOrderRepeats(s, seen) == seen \o s

\* the keys of a Map in insertion order: the distinct values of f over s, by
\* first occurrence
RECURSIVE insertionOrder(_, _)
insertionOrder(s, seen) ==
    IF s = <<>> THEN seen
    ELSE IF \E i \in 1..Len(seen) : seen[i] = Head(s)
    THEN insertionOrder(Tail(s), seen)
    ELSE insertionOrder(Tail(s), Append(seen, Head(s)))

\* the skip of the markers left out: every entry of the account is grouped
datedOfAll(assetName, txs) == SelectSeq(txs, LAMBDA tx : tx.assetName = assetName)

\* the entries of txs that monthlyLast is built from for one account: those of
\* the account that are not skipped by `if (tx.isInitial || tx.year === 0) continue`
RECURSIVE datedOf(_, _)
datedOf(assetName, txs) ==
    IF txs = <<>> THEN <<>>
    ELSE LET tx == Head(txs) IN
         IF tx.assetName = assetName /\ ~(tx.isInitial \/ tx.year = 0)
         THEN <<tx>> \o datedOf(assetName, Tail(txs))
         ELSE datedOf(assetName, Tail(txs))

\* `${tx.year}-${String(tx.month).padStart(2, "0")}`
monthKey(tx) == String(tx.year) \o <<"-">> \o padStart2(String(tx.month))

\* [...keys].sort(): the keys in ascending string order
RECURSIVE sortKeys(_)
sortKeys(keys) ==
    IF keys = <<>> THEN <<>>
    ELSE LET m == CHOOSE i \in 1..Len(keys) :
                      \A j \in 1..Len(keys) : ~StringLess(keys[j], keys[i])
             rest == [i \in 1..(Len(keys) - 1) |->
                         IF i < m THEN keys[i] ELSE keys[i + 1]]
         IN  <<keys[m]>> \o sortKeys(rest)

\* the keys left in the Map's insertion order: the .sort() forgotten
sortedKeysUnsorted(monthlyLastKeys) == monthlyLastKeys

sortedKeys(monthlyLastKeys) == sortKeys(monthlyLastKeys)

\* a Map that keeps the first value set for a key
monthlyLastGetFirst(dated, key) ==
    LET i == CHOOSE j \in 1..Len(dated) :
                 /\ monthKey(dated[j]) = key
                 /\ \A k \in 1..(j - 1) : monthKey(dated[k]) # key
    IN  [balance |-> dated[i].balance, year |-> dated[i].year, month |-> dated[i].month]

\* monthlyLast.get(key): the value the last set(key, ...) stored
monthlyLastGet(dated, key) ==
    LET i == CHOOSE j \in 1..Len(dated) :
                 /\ monthKey(dated[j]) = key
                 /\ \A k \in (j + 1)..Len(dated) : monthKey(dated[k]) # key
    IN  [balance |-> dated[i].balance, year |-> dated[i].year, month |-> dated[i].month]

\* the walk over sortedKeys with prevClosing (hasPrev: prevClosing is not null)
RECURSIVE chainSnapshots(_, _, _, _, _)
chainSnapshots(assetName, dated, keys, hasPrev, prevClosing) ==
    IF keys = <<>> THEN <<>>
    ELSE LET e == monthlyLastGet(dated, Head(keys)) IN
         << [ assetName |-> assetName,
              year |-> e.year,
              month |-> e.month,
              closingBalance |-> e.balance,
              openingBalance |-> IF hasPrev THEN prevClosing ELSE e.balance,
              assetType |-> inferAssetType(assetName) ] >>
         \o chainSnapshots(assetName, dated, Tail(keys), TRUE, e.balance)

\* the snapshots of one account: the body of the loop over byAsset.entries()
assetSnapshotsOf(assetName, txs) ==
    LET dated == datedOf(assetName, txs)
        keys == insertionOrder([i \in 1..Len(dated) |-> monthKey(dated[i])], <<>>)
    IN  chainSnapshots(assetName, dated, sortedKeys(keys), FALSE, 0)

RECURSIVE snapshotsOfAll(_, _)
snapshotsOfAll(assetNames, txs) ==
    IF assetNames = <<>> THEN <<>>
    ELSE assetSnapshotsOf(Head(assetNames), txs) \o snapshotsOfAll(Tail(assetNames), txs)

aggregateAssetSnapshots(txs) ==
    LET byAssetKeys == insertionOrder([i \in 1..Len(txs) |-> txs[i].assetName], <<>>)
    IN  snapshotsOfAll(byAssetKeys, txs)

----------------------------------------------------------------------------
(* Inputs *)

\* parseCombinedReport(text, 2019), parseAssetReport(text, 2019) in POST
FromYear == 2019

\* the longest text, in lines, that the parsers are called with
MaxLines == 2

\* the longest entry list that aggregateAssetSnapshots is called with
MaxEntries == 3

\* cols.join(",")
RECURSIVE joinWith(_, _)
joinWith(seqs, sep) ==
    IF seqs = <<>> THEN <<>>
    ELSE IF Len(seqs) = 1 THEN seqs[1]
    ELSE seqs[1] \o sep \o joinWith(Tail(seqs), sep)

Row(cols) == joinWith(cols, <<",">>)

Mar05 == <<"2", "0", "2", "4", "nen", "0", "3", "gatsu", "0", "5", "nichi", "(", "x", ")">>
Apr10 == <<"2", "0", "2", "4", "nen", "0", "4", "gatsu", "1", "0", "nichi", "(", "x", ")">>
Old18 == <<"2", "0", "1", "8", "nen", "1", "2", "gatsu", "3", "1", "nichi", "(", "x", ")">>
\* a year and no two-digit month: /^\d{4}年/ matches, the date pattern does not
BadDate == <<"2", "0", "2", "4", "nen", "3", "gatsu", "5", "nichi">>

Sentinel == <<"__asset_report__">>
Furikae == <<"furikae">>
IDeCo == <<"iDeCo">>
Bank == <<"mitsubishi", "ginko">>

\* rows of the combined ledger:
\* date, kind, category, item, amount, expense, income, asset, tag, memo, exclude
LunchLine ==
    Row(<< Mar05, <<"shishutsu">>, <<"shokuhi">>, <<"ranchi">>, <<"1", "2", "0", "0">>,
           <<"\"", "1", ",", "2", "0", "0", "\"">>, <<"0">>, <<"genkin">>, <<>>, <<>>,
           <<"-">> >>)
TransferLine ==
    Row(<< Mar05, Furikae, Furikae, <<>>, <<"1", "0", "0", "0">>, <<"0">>,
           <<"1", "0", "0", "0">>, IDeCo, <<>>, <<>>, <<"-">> >>)
\* a transfer that the ledger files under another category
TransferOtherCategoryLine ==
    Row(<< Mar05, Furikae, <<"sonota">>, <<>>, <<"1", "0", "0", "0">>, <<"0">>,
           <<"1", "0", "0", "0">>, IDeCo, <<>>, <<>>, <<"-">> >>)
SalaryLine ==
    Row(<< Apr10, <<"shunyu">>, <<"kyuyo">>, <<>>, <<"5", "0", "0", "0">>, <<>>,
           <<"5", "0", "0", "0">>, Bank, <<>>, <<>>, <<>> >>)
ZeroYenLine ==
    Row(<< Mar05, <<"shishutsu">>, <<"shokuhi">>, <<>>, <<"0">>, <<"0">>, <<"0">>,
           <<"genkin">>, <<>>, <<>>, <<"-">> >>)
BothAmountsLine ==
    Row(<< Apr10, <<"shishutsu">>, <<"sonota">>, <<>>, <<"7", "0", "0">>, <<"7", "0", "0">>,
           <<"5", "0", "0">>, <<"genkin">>, <<>>, <<>>, <<"-">> >>)
\* the exclude column holds the dash between blanks
SpacedDashLine ==
    Row(<< Apr10, <<"shishutsu">>, <<"shokuhi">>, <<>>, <<"9">>, <<"8", "0", "0">>, <<"0">>,
           <<"genkin">>, <<>>, <<>>, <<" ", "-", " ">> >>)
\* the exclude column holds a word, and the expense column digits and letters
ExcludedLine ==
    Row(<< Mar05, <<"shishutsu">>, <<"sonota">>, <<>>, <<"3", "0", "0">>,
           <<"1", "2", "a", "b", "c">>, <<"a", "b", "c">>, <<"genkin">>, <<>>, <<>>,
           <<"x">> >>)
\* the memo column holds the text that marks a synthetic transfer
SentinelMemoLine ==
    Row(<< Mar05, <<"shishutsu">>, <<"sonota">>, <<>>, <<"3", "0", "0">>, <<"3", "0", "0">>,
           <<"0">>, <<"genkin">>, <<>>, Sentinel, <<"-">> >>)
CombinedHeaderLine ==
    Row(<< <<"x">>, <<"x">>, <<"x">>, <<"x">>, <<"x">>, <<"shishutsu">>, <<"shunyu">>,
           <<"x">>, <<"x">>, <<"x">>, <<"x">> >>)
OldLine ==
    Row(<< Old18, <<"shishutsu">>, <<"shokuhi">>, <<>>, <<"9">>, <<"9">>, <<"0">>,
           <<"genkin">>, <<>>, <<>>, <<"-">> >>)
TenColumnLine ==
    Row(<< Mar05, <<"shishutsu">>, <<"shokuhi">>, <<>>, <<"9">>, <<"9">>, <<"0">>,
           <<"genkin">>, <<>>, <<>> >>)
BadDateLine ==
    Row(<< BadDate, <<"shishutsu">>, <<"shokuhi">>, <<>>, <<"9">>, <<"9">>, <<"0">>,
           <<"genkin">>, <<>>, <<>>, <<"-">> >>)

CombinedLines ==
    { LunchLine, TransferLine, TransferOtherCategoryLine, SalaryLine, ZeroYenLine,
      BothAmountsLine, SpacedDashLine, ExcludedLine, CombinedHeaderLine, OldLine,
      TenColumnLine, BadDateLine }

\* rows of the asset ledger: name, date, kind, category, item, amount, balance
IDeCoMarLine ==
    Row(<< IDeCo, Mar05, Furikae, Furikae, <<"x">>, <<"1", "0", "0", "0">>,
           <<"5", "0", "0", "0">> >>)
IDeCoAprLine ==
    Row(<< IDeCo, Apr10, Furikae, Furikae, <<"x">>, <<"2", "0", "0", "0">>,
           <<"7", "0", "0", "0">> >>)
BankInitialLine ==
    Row(<< Bank, <<"-">>, <<"-">>, <<"-">>, <<"-">>, <<"-">>, <<"5", "0", "0">> >>)
\* a row of the account named above it
ContinuationLine ==
    Row(<< <<>>, Apr10, <<"shishutsu">>, <<"shokuhi">>, <<"x">>, <<"2", "0">>,
           <<"4", "8", "0">> >>)
AssetHeaderLine ==
    Row(<< <<"namae">>, <<"x">>, <<"x">>, <<"x">>, <<"x">>, <<"x">>, <<"x">> >>)
\* six columns: a date and no balance column
SixColumnDatedLine ==
    Row(<< IDeCo, Mar05, Furikae, Furikae, <<"x">>, <<"1", "0", "0", "0">> >>)
\* six columns: an initial-balance marker and no balance column
SixColumnInitialLine ==
    Row(<< Bank, <<"-">>, <<"-">>, <<"-">>, <<"-">>, <<"-">> >>)
FiveColumnLine ==
    Row(<< IDeCo, Mar05, Furikae, Furikae, <<"x">> >>)
AssetBadDateLine ==
    Row(<< IDeCo, BadDate, Furikae, Furikae, <<"x">>, <<"1">>, <<"2">> >>)
AssetOldLine ==
    Row(<< IDeCo, Old18, Furikae, Furikae, <<"x">>, <<"1">> >>)

AssetLines ==
    { IDeCoMarLine, IDeCoAprLine, BankInitialLine, ContinuationLine, AssetHeaderLine,
      SixColumnDatedLine, SixColumnInitialLine, FiveColumnLine, AssetBadDateLine,
      AssetOldLine }

SeqsUpTo(S, n) == UNION {[1..k -> S] : k \in 0..n}

\* a file of the given lines: an optional byte-order mark, LF or CRLF line ends
FileText(lines, bom, eol) ==
    (IF bom THEN <<"BOM">> ELSE <<>>) \o joinWith(lines, eol)

ParserTexts ==
    { FileText(ls, bom, eol) :
        ls \in SeqsUpTo(CombinedLines \cup AssetLines, MaxLines),
        bom \in BOOLEAN,
        eol \in {<<"\n">>, <<"\r", "\n">>} }

\* entries as parseAssetReport produces them: a four-digit year from the cutoff
\* on and a two-digit month, or the undated initial-balance marker
EntryOf(assetName, ym, balance) ==
    [ assetName |-> assetName,
      date |-> String(ym[1]) \o <<"-">> \o padStart2(String(ym[2])) \o <<"-", "0", "1">>,
      year |-> ym[1], month |-> ym[2], type |-> <<"shishutsu">>, category |-> <<>>,
      itemName |-> <<>>, amount |-> 0, balance |-> balance, isInitial |-> FALSE ]

InitialOf(assetName, balance) ==
    [ assetName |-> assetName, date |-> <<>>, year |-> 0, month |-> 0,
      type |-> <<"initial">>, category |-> <<>>, itemName |-> <<"shokizandaka">>,
      amount |-> 0, balance |-> balance, isInitial |-> TRUE ]

\* an entry dated in the middle of a month
MidMonthEntry ==
    [ EntryOf(IDeCo, <<2024, 2>>, 300) EXCEPT
        !.date = <<"2", "0", "2", "4", "-", "0", "2", "-", "1", "5">> ]

Entries ==
    { EntryOf(a, ym, b) :
        a \in {IDeCo, Bank},
        ym \in {<<2023, 12>>, <<2024, 2>>, <<2024, 10>>},
        b \in {100, 200} }
    \cup { InitialOf(a, 50) : a \in {IDeCo, Bank} }
    \cup { MidMonthEntry }

\* the longest account name, in words, that inferAssetType is called with
MaxWords == 2

\* the words of an account name: the keywords of the rules and a word of none
NameWords ==
    { "kaado", "kureka", "NICOS", "kariire", "roon", "miharaikin", "shoken", "iDeCo",
      "toushin", "MMF", "kabu", "ETF", "PASMO", "suica", "Suica", "IC", "PayPay",
      "LINE Pay", "hachipei", "merupei", "pei", "genkin", "osaifu", "saifu", "futo",
      "seisanyo", "yucho", "mitsubishi", "SBI", "rokin", "mizuho", "risona",
      "osakashoko", "ginko", "kinko", "x" }

AccountNames == SeqsUpTo(NameWords, MaxWords)

----------------------------------------------------------------------------
(* The tables *)

\* SQL NULL in a text column: `t.memo || null` stores it for the empty string
Null == <<"<null>">>

orNull(v) == IF v = <<>> THEN Null ELSE v

\* the values of one row of db.insert(transactions).values(...)
transactionValues(t) ==
    [ date |-> t.date,
      year |-> t.year,
      month |-> t.month,
      type |-> t.type,
      category |-> t.category,
      itemName |-> orNull(t.itemName),
      amount |-> t.amount,
      expenseAmount |-> t.expenseAmount,
      incomeAmount |-> t.incomeAmount,
      assetName |-> orNull(t.assetName),
      tag |-> orNull(t.tag),
      memo |-> orNull(t.memo),
      excludeFromPl |-> t.excludeFromPl ]

RECURSIVE insertRows(_, _)
insertRows(table, rows) ==
    IF rows = <<>> THEN table
    ELSE insertRows(table (+) SetToBag({transactionValues(Head(rows))}), Tail(rows))

\* the table without the rows of `doomed`
deleteRows(table, doomed) ==
    [r \in (BagToSet(table) \ doomed) |-> table[r]]

\* and(eq(transactions.year, y), eq(transactions.month, m))
inPeriod(r, ym) == r.year = ym[1] /\ r.month = ym[2]

\* the delete of the period left out: nothing is removed before the insert
periodRowsNone(table, ym) == {}

\* a delete by year alone: the rows of every month of the year
periodRowsOfYear(table, ym) == {r \in BagToSet(table) : r.year = ym[1]}

\* a delete that spares the rows of the transfer phase
periodRowsSparingSynthetic(table, ym) ==
    {r \in BagToSet(table) :
        inPeriod(r, ym) /\ ~(r.type = Furikae /\ r.memo # Null /\ r.memo = Sentinel)}

\* the where clause of the delete of the combined-ledger phase
periodRows(table, ym) == {r \in BagToSet(table) : inPeriod(r, ym)}

\* the delete of the transfer phase left out
sentinelRowsNone(table, ym) == {}

\* a delete by memo alone: the synthetic rows of every period
sentinelRowsAnyPeriod(table, ym) ==
    {r \in BagToSet(table) : r.type = Furikae /\ r.memo # Null /\ r.memo = Sentinel}

\* the where clause of the delete of the transfer phase
sentinelRows(table, ym) ==
    {r \in BagToSet(table) :
        inPeriod(r, ym) /\ r.type = Furikae /\ r.memo # Null /\ r.memo = Sentinel}

\* the select that finds nothing: every extracted transfer is inserted
existingTransfersNone(table, t) == {}

\* the where clause of the select before a synthetic transfer is inserted; a
\* comparison with NULL is not true
existingTransfers(table, t) ==
    {r \in BagToSet(table) :
        /\ r.date = t.date
        /\ r.assetName # Null /\ r.assetName = t.assetName
        /\ r.incomeAmount = t.incomeAmount
        /\ r.category = Furikae
        /\ (r.memo = Null \/ r.memo # Sentinel)}

\* asset_snapshots_uniq: unique (asset_name, year, month)
snapshotKey(s) == <<s.assetName, s.year, s.month>>

\* a plain insert into a table without asset_snapshots_uniq
upsertSnapshotAdds(table, s) == table \cup {s}

\* insert ... on conflict (asset_name, year, month) do update set closing_balance,
\* opening_balance, asset_type = excluded.*: one row of the batch
upsertSnapshot(table, s) ==
    {r \in table : snapshotKey(r) # snapshotKey(s)} \cup {s}

RECURSIVE upsertSnapshots(_, _)
upsertSnapshots(table, batch) ==
    IF batch = <<>> THEN table
    ELSE upsertSnapshots(upsertSnapshot(table, Head(batch)), Tail(batch))

----------------------------------------------------------------------------
(* Transfer extractor *)

\* the account names of PRODUCT_TO_ASSET
InvestmentAssets == {IDeCo, <<"toushin", "/", "SBI">>}

RECURSIVE syntheticTransfers(_)
syntheticTransfers(entries) ==
    IF entries = <<>> THEN <<>>
    ELSE LET tx == Head(entries) IN
         IF ~tx.isInitial /\ tx.type = Furikae /\ tx.assetName \in InvestmentAssets
         THEN << [ date |-> tx.date, year |-> tx.year, month |-> tx.month,
                   type |-> Furikae, category |-> Furikae, itemName |-> tx.itemName,
                   amount |-> tx.amount, expenseAmount |-> 0,
                   incomeAmount |-> tx.amount, assetName |-> tx.assetName,
                   tag |-> <<>>, memo |-> Sentinel, excludeFromPl |-> TRUE ] >>
              \o syntheticTransfers(Tail(entries))
         ELSE syntheticTransfers(Tail(entries))

\* the transfer-kind rows of the investment accounts, dated and amounted as recorded
extractInvestmentTransfers(csvText, fromYear) ==
    LET parsed == parseAssetReport(csvText, fromYear)
    IN  IF parsed.threw THEN <<>> ELSE syntheticTransfers(parsed.rows)

----------------------------------------------------------------------------
(* Gemini utility: the daily quota *)

\* export const GEMINI_DAILY_LIMIT
GEMINI_DAILY_LIMIT == 400

\* how many calls of analyzeWithGemini may be in flight at once
MaxCalls == 2
Callers == 1..MaxCalls

\* todayJST(): the calls of one day
Today == "today"

\* getTodayUsage: rows[0]?.count ?? 0 of the row of today, and what remains
getTodayUsage(table) ==
    LET rows == {r \in table : r.date = Today}
        count == IF rows = {} THEN 0 ELSE (CHOOSE r \in rows : TRUE).count
    IN  [count |-> count, remaining |-> GEMINI_DAILY_LIMIT - count, date |-> Today]

\* incrementUsage: insert (today, 1), on conflict on the date count = count + 1,
\* in one statement
incrementUsage(table) ==
    IF \E r \in table : r.date = Today
    THEN {IF r.date = Today THEN [r EXCEPT !.count = r.count + 1] ELSE r : r \in table}
    ELSE table \cup {[date |-> Today, count |-> 1]}

\* what a call returns
failure(error) == [pc |-> "done", success |-> FALSE, error |-> error]

\* what fetch and the body of the response can come to
FetchOutcomes == {"text", "not ok", "empty", "rejected"}

\* lines 83-87: the call starts; without an API key it returns at once
AnalyzeWithGemini(i, apiKey) ==
    /\ analyses[i].pc \in {"idle", "done"}
    /\ analyses' = [analyses EXCEPT
                      ![i] = IF ~apiKey THEN failure("no api key")
                             ELSE [pc |-> "getTodayUsage"]]
    /\ UNCHANGED <<transactions, assetSnapshots, investmentValuations, req, val, admitted,
                   hist, call, parked, geminiUsage>>

\* lines 90-97: read the usage of today; nothing left is a failure, and the select
\* may reject, which the call does not catch
GetTodayUsage(i) ==
    /\ analyses[i].pc = "getTodayUsage"
    /\ \/ analyses' = [analyses EXCEPT
                         ![i] = IF getTodayUsage(geminiUsage).remaining <= 0
                                THEN failure("limit reached")
                                ELSE [pc |-> "fetch"]]
       \/ analyses' = [analyses EXCEPT ![i] = [pc |-> "done", threw |-> TRUE]]
    /\ UNCHANGED <<transactions, assetSnapshots, investmentValuations, req, val, admitted,
                   hist, call, parked, geminiUsage>>

\* lines 113-136 and 143-148: the API request and its answer
Fetch(i, outcome) ==
    /\ analyses[i].pc = "fetch"
    /\ analyses' = [analyses EXCEPT
                      ![i] = CASE outcome = "text" -> [pc |-> "incrementUsage"]
                               [] outcome = "not ok" -> failure("api error")
                               [] outcome = "empty" -> failure("empty response")
                               [] outcome = "rejected" -> failure("e.message")]
    /\ UNCHANGED <<transactions, assetSnapshots, investmentValuations, req, val, admitted,
                   hist, call, parked, geminiUsage>>

\* lines 138-142: count the call and return the text; a rejected upsert is caught
\* (lines 143-148)
IncrementUsage(i) ==
    /\ analyses[i].pc = "incrementUsage"
    /\ \/ /\ geminiUsage' = incrementUsage(geminiUsage)
          /\ analyses' = [analyses EXCEPT
                            ![i] = [pc |-> "done", success |-> TRUE,
                                    count |-> getTodayUsage(geminiUsage').count]]
       \/ /\ analyses' = [analyses EXCEPT ![i] = failure("e.message")]
          /\ UNCHANGED geminiUsage
    /\ UNCHANGED <<transactions, assetSnapshots, investmentValuations, req, val, admitted,
                   hist, call, parked>>

NextGemini ==
    \/ \E i \in Callers, apiKey \in BOOLEAN : AnalyzeWithGemini(i, apiKey)
    \/ \E i \in Callers : GetTodayUsage(i)
    \/ \E i \in Callers, outcome \in FetchOutcomes : Fetch(i, outcome)
    \/ \E i \in Callers : IncrementUsage(i)

----------------------------------------------------------------------------
(* POST /api/import *)

NoRequest == [pc |-> "idle"]
NoCall == [op |-> "none"]
NoHistory == [started |-> FALSE]

InitTables ==
    /\ transactions = EmptyBag
    /\ assetSnapshots = {}
    /\ investmentValuations = {}
    /\ req = NoRequest
    /\ val = NoRequest
    /\ admitted = 0
    /\ hist = NoHistory
    /\ parked = NoRequest
    /\ geminiUsage = {}
    /\ analyses = [i \in Callers |-> [pc |-> "idle"]]

\* formData.get(...) of a field that was not sent
NoFile == "null"

\* const BATCH = 500 of the combined-ledger phase
BATCH == 500

\* const BATCH = 200 of the asset-ledger phase
SNAPSHOT_BATCH == 200

\* the files a request is made with, by name
CombinedFiles ==
    { "header.csv", "lunch.csv", "zero-salary.csv", "transfer.csv", "transfer-other.csv",
      "sentinel-memo.csv" }

AssetFiles == {"ideco-mar.csv", "ideco-apr-bank.csv", "six-columns.csv"}

\* await file.text()
text(file) ==
    CASE file = "header.csv" -> FileText(<<CombinedHeaderLine>>, FALSE, <<"\n">>)
      [] file = "lunch.csv" ->
            FileText(<<CombinedHeaderLine, LunchLine>>, TRUE, <<"\r", "\n">>)
      [] file = "zero-salary.csv" -> FileText(<<ZeroYenLine, SalaryLine>>, FALSE, <<"\n">>)
      [] file = "transfer.csv" -> FileText(<<TransferLine>>, FALSE, <<"\n">>)
      [] file = "transfer-other.csv" ->
            FileText(<<TransferOtherCategoryLine>>, FALSE, <<"\n">>)
      [] file = "sentinel-memo.csv" -> FileText(<<SentinelMemoLine>>, FALSE, <<"\n">>)
      [] file = "salary.csv" -> FileText(<<SalaryLine>>, FALSE, <<"\n">>)
      [] file = "ideco-mar.csv" ->
            FileText(<<AssetHeaderLine, IDeCoMarLine>>, FALSE, <<"\n">>)
      [] file = "ideco-apr-bank.csv" ->
            FileText(<<IDeCoAprLine, BankInitialLine, ContinuationLine>>, TRUE,
                     <<"\r", "\n">>)
      [] file = "six-columns.csv" -> FileText(<<SixColumnDatedLine>>, FALSE, <<"\n">>)

\* [...new Set(list.map((t) => `${t.year}-${t.month}`))] mapped back through
\* split("-").map(Number): the distinct periods in order of first occurrence
yearMonthsOf(list) ==
    insertionOrder([i \in 1..Len(list) |-> <<list[i].year, list[i].month>>], <<>>)

\* NextResponse.json(body, { status })
errorResponse(status, error) == [status |-> status, error |-> error]

\* the literal the catch clause answers with when what was thrown is no Error
ImportFailed == "import failed"

\* what an awaited statement of the database driver rejects with: an Error
thrown == [isError |-> TRUE, message |-> "e.message"]

\* lines 161-167: e instanceof Error ? e.message : the literal, with status 500
catch(e) == errorResponse(500, IF e.isError THEN e.message ELSE ImportFailed)

\* the catch clause: a database error is an Error and its message is returned
caught == catch(thrown)

respond(r, response) == [r EXCEPT !.pc = "done", !.response = response]

\* where the handler goes once the combined-ledger phase is over
afterCombined(r) ==
    IF r.assetFile # NoFile THEN [r EXCEPT !.pc = "parseAsset"]
    ELSE [r EXCEPT !.pc = "respond"]

\* what hist keeps of the request that ended before this one
finished(r) ==
    IF r.pc = "done" /\ r.response.status = 200
    THEN [ok |-> TRUE, combinedFile |-> r.combinedFile, assetFile |-> r.assetFile]
    ELSE [ok |-> FALSE]

\* lines 14-26: the handler's locals when a request arrives, and where it goes
arrival(combinedFile, assetFile) ==
    LET r == [ pc |-> "parseCombined", combinedFile |-> combinedFile,
               assetFile |-> assetFile, parsed |-> <<>>, yearMonths |-> <<>>,
               snapshots |-> <<>>, investmentTransfers |-> <<>>, ymSet |-> <<>>,
               i |-> 0, existing |-> 0, txInserted |-> 0, txSkipped |-> 0,
               assetInserted |-> 0, transfersInserted |-> 0,
               response |-> [status |-> 0] ]
    IN  IF combinedFile = NoFile /\ assetFile = NoFile
        THEN respond(r, errorResponse(400, "no file"))
        ELSE IF combinedFile = NoFile THEN [r EXCEPT !.pc = "parseAsset"]
        ELSE r

\* lines 14-26: the request arrives; no file at all is a validation error
POST(combinedFile, assetFile) ==
    /\ req.pc \in {"idle", "done"}
    /\ hist' = [ started |-> TRUE, transactions |-> transactions,
                 assetSnapshots |-> assetSnapshots, previous |-> finished(req) ]
    /\ req' = arrival(combinedFile, assetFile)
    /\ UNCHANGED <<transactions, assetSnapshots, investmentValuations, val, call, parked, gemini>>

\* the check of parsed.length left out: an empty batch goes on to the asset ledger
ParseCombinedUnchecked ==
    /\ req.pc = "parseCombined"
    /\ LET parsed == parseCombinedReport(text(req.combinedFile), FromYear) IN
       req' = IF Len(parsed) = 0 THEN afterCombined(req)
              ELSE [req EXCEPT !.pc = "deletePeriod", !.parsed = parsed,
                               !.yearMonths = yearMonthsOf(parsed), !.i = 1]
    /\ UNCHANGED <<transactions, assetSnapshots, investmentValuations, val, admitted,
                   hist, call, parked, gemini>>

\* lines 29-39: parse the combined ledger; no transaction is a validation error
ParseCombined ==
    /\ req.pc = "parseCombined"
    /\ LET parsed == parseCombinedReport(text(req.combinedFile), FromYear) IN
       req' = IF Len(parsed) = 0
              THEN respond(req, errorResponse(400, "no transactions"))
              ELSE [req EXCEPT !.pc = "deletePeriod", !.parsed = parsed,
                               !.yearMonths = yearMonthsOf(parsed), !.i = 1]
    /\ UNCHANGED <<transactions, assetSnapshots, investmentValuations, val, admitted,
                   hist, call, parked, gemini>>

\* lines 40-44, one turn of the loop: delete the rows of one period
DeletePeriod ==
    /\ req.pc = "deletePeriod"
    /\ transactions' = deleteRows(transactions,
                                  periodRows(transactions, req.yearMonths[req.i]))
    /\ req' = IF req.i < Len(req.yearMonths) THEN [req EXCEPT !.i = req.i + 1]
              ELSE [req EXCEPT !.pc = "insertBatch", !.i = 0]
    /\ UNCHANGED <<assetSnapshots, investmentValuations, val, admitted, hist, call, parked, gemini>>

\* lines 48-68, one turn of the loop: insert one batch of the parsed rows
InsertBatch ==
    /\ req.pc = "insertBatch"
    /\ LET batch == slice(req.parsed, req.i, req.i + BATCH)
           r == [req EXCEPT !.i = req.i + BATCH,
                            !.txInserted = req.txInserted + Len(batch)]
       IN  /\ transactions' = insertRows(transactions, batch)
           /\ req' = IF r.i < Len(req.parsed) THEN r ELSE afterCombined(r)
    /\ UNCHANGED <<assetSnapshots, investmentValuations, val, admitted, hist, call, parked, gemini>>

\* lines 72-75: parse and aggregate the asset ledger; a raise goes to the catch
ParseAsset ==
    /\ req.pc = "parseAsset"
    /\ LET assetTxList == parseAssetReport(text(req.assetFile), FromYear) IN
       req' = IF assetTxList.threw THEN respond(req, caught)
              ELSE LET snapshots == aggregateAssetSnapshots(assetTxList.rows) IN
                   [req EXCEPT !.snapshots = snapshots, !.i = 0,
                               !.pc = IF Len(snapshots) > 0 THEN "upsertBatch"
                                      ELSE "extract"]
    /\ UNCHANGED <<transactions, assetSnapshots, investmentValuations, val, admitted,
                   hist, call, parked, gemini>>

\* lines 78-93, one turn of the loop: upsert one batch of snapshots
UpsertBatch ==
    /\ req.pc = "upsertBatch"
    /\ LET batch == slice(req.snapshots, req.i, req.i + SNAPSHOT_BATCH)
           r == [req EXCEPT !.i = req.i + SNAPSHOT_BATCH,
                            !.assetInserted = req.assetInserted + Len(batch)]
       IN  /\ assetSnapshots' = upsertSnapshots(assetSnapshots, batch)
           /\ req' = IF r.i < Len(req.snapshots) THEN r ELSE [r EXCEPT !.pc = "extract"]
    /\ UNCHANGED <<transactions, investmentValuations, val, admitted, hist, call, parked, gemini>>

\* lines 97-101: extract the investment transfers and the periods they touch
ExtractTransfers ==
    /\ req.pc = "extract"
    /\ LET investmentTransfers == extractInvestmentTransfers(text(req.assetFile), FromYear) IN
       req' = IF Len(investmentTransfers) > 0
              THEN [req EXCEPT !.pc = "deleteSentinel", !.i = 1,
                               !.investmentTransfers = investmentTransfers,
                               !.ymSet = yearMonthsOf(investmentTransfers)]
              ELSE [req EXCEPT !.pc = "respond"]
    /\ UNCHANGED <<transactions, assetSnapshots, investmentValuations, val, admitted,
                   hist, call, parked, gemini>>

\* lines 102-114, one turn of the loop: delete the synthetic rows of one period
DeleteSentinel ==
    /\ req.pc = "deleteSentinel"
    /\ transactions' = deleteRows(transactions,
                                  sentinelRows(transactions, req.ymSet[req.i]))
    /\ req' = IF req.i < Len(req.ymSet) THEN [req EXCEPT !.i = req.i + 1]
              ELSE [req EXCEPT !.pc = "selectExisting", !.i = 1]
    /\ UNCHANGED <<assetSnapshots, investmentValuations, val, admitted, hist, call, parked, gemini>>

\* lines 119-130: look for the same transfer among the rows of the combined ledger
SelectExisting ==
    /\ req.pc = "selectExisting"
    /\ LET t == req.investmentTransfers[req.i]
           found == existingTransfers(transactions, t)
       IN  req' = [req EXCEPT !.pc = "insertTransfer",
                              !.existing = BagCardinality([r \in found |-> transactions[r]])]
    /\ UNCHANGED <<transactions, assetSnapshots, investmentValuations, val, admitted,
                   hist, call, parked, gemini>>

\* the counter incremented outside the if: a skipped transfer counts as inserted
InsertTransferCountsSkipped ==
    /\ req.pc = "insertTransfer"
    /\ LET t == req.investmentTransfers[req.i]
           insert == req.existing = 0
           n == req.transfersInserted + 1
       IN  /\ transactions' = IF insert THEN insertRows(transactions, <<t>>)
                              ELSE transactions
           /\ req' = IF req.i < Len(req.investmentTransfers)
                     THEN [req EXCEPT !.pc = "selectExisting", !.i = req.i + 1,
                                      !.transfersInserted = n]
                     ELSE [req EXCEPT !.pc = "respond", !.transfersInserted = n,
                                      !.assetInserted = req.assetInserted + n]
    /\ UNCHANGED <<assetSnapshots, investmentValuations, val, admitted, hist, call, parked, gemini>>

\* lines 132-152: insert the synthetic transfer unless the select found a row
InsertTransfer ==
    /\ req.pc = "insertTransfer"
    /\ LET t == req.investmentTransfers[req.i]
           insert == req.existing = 0
           n == IF insert THEN req.transfersInserted + 1 ELSE req.transfersInserted
       IN  /\ transactions' = IF insert THEN insertRows(transactions, <<t>>)
                              ELSE transactions
           /\ req' = IF req.i < Len(req.investmentTransfers)
                     THEN [req EXCEPT !.pc = "selectExisting", !.i = req.i + 1,
                                      !.transfersInserted = n]
                     ELSE [req EXCEPT !.pc = "respond", !.transfersInserted = n,
                                      !.assetInserted = req.assetInserted + n]
    /\ UNCHANGED <<assetSnapshots, investmentValuations, val, admitted, hist, call, parked, gemini>>

\* lines 156-160: the counts
Respond ==
    /\ req.pc = "respond"
    /\ req' = respond(req, [ status |-> 200, success |-> TRUE,
                             transactions |-> [inserted |-> req.txInserted,
                                               skipped |-> req.txSkipped],
                             assets |-> [inserted |-> req.assetInserted] ])
    /\ UNCHANGED <<transactions, assetSnapshots, investmentValuations, val, admitted,
                   hist, call, parked, gemini>>

\* the steps that await the database
DbSteps ==
    {"deletePeriod", "insertBatch", "upsertBatch", "deleteSentinel", "selectExisting",
     "insertTransfer"}

\* lines 161-167: the awaited statement rejects; the catch clause answers 500
DbError ==
    /\ req.pc \in DbSteps
    /\ ~(req.pc = "insertTransfer" /\ req.existing # 0)
    /\ req' = respond(req, caught)
    /\ UNCHANGED <<transactions, assetSnapshots, investmentValuations, val, admitted,
                   hist, call, parked, gemini>>

Init ==
    /\ InitTables
    /\ call = NoCall

Next ==
    \/ \E c \in CombinedFiles \cup {NoFile}, a \in AssetFiles \cup {NoFile} :
          POST(c, a) /\ UNCHANGED admitted
    \/ ParseCombined
    \/ DeletePeriod
    \/ InsertBatch
    \/ ParseAsset
    \/ UpsertBatch
    \/ ExtractTransfers
    \/ DeleteSentinel
    \/ SelectExisting
    \/ InsertTransfer
    \/ Respond
    \/ DbError

Spec == Init /\ [][Next]_vars

SpecGemini == Init /\ [][NextGemini]_vars

----------------------------------------------------------------------------
(* Two imports at once *)

\* the combined ledgers of the requests that may overlap
ConcurrentFiles == {"lunch.csv", "zero-salary.csv", "salary.csv"}

\* how many imports are admitted where two may overlap
MaxImports == 3

\* lines 14-26: a second request arrives while the first waits at an await; the
\* handler starts again with its own locals and the first request keeps its own
POSTConcurrent(combinedFile) ==
    /\ req.pc \notin {"idle", "done"}
    /\ parked.pc = "idle"
    /\ parked' = req
    /\ req' = arrival(combinedFile, NoFile)
    /\ UNCHANGED <<transactions, assetSnapshots, investmentValuations, val, hist, call, gemini>>

\* the statement the other request awaits completes: that request runs next
Resume ==
    /\ parked.pc \notin {"idle", "done"}
    /\ req' = parked
    /\ parked' = req
    /\ UNCHANGED <<transactions, assetSnapshots, investmentValuations, val, admitted, hist,
                   call, gemini>>

NextConcurrent ==
    \/ \E c \in ConcurrentFiles :
          /\ admitted < MaxImports
          /\ parked.pc = "idle"
          /\ POST(c, NoFile)
          /\ admitted' = admitted + 1
    \/ \E c \in ConcurrentFiles :
          /\ admitted < MaxImports
          /\ POSTConcurrent(c)
          /\ admitted' = admitted + 1
    \/ Resume
    \/ ParseCombined
    \/ DeletePeriod
    \/ InsertBatch
    \/ Respond
    \/ DbError

SpecConcurrent == Init /\ [][NextConcurrent]_vars

----------------------------------------------------------------------------
(* POST /api/investment *)

IDeCoProduct == <<"iDeCo">>
SBIProduct == <<"SBI", "toushin">>

\* the keys every object literal inherits from Object.prototype
ObjectPrototypeKeys ==
    { <<"constructor">>, <<"toString">>, <<"toLocaleString">>, <<"valueOf">>,
      <<"hasOwnProperty">>, <<"isPrototypeOf">>, <<"propertyIsEnumerable">>,
      <<"__proto__">>, <<"__defineGetter__">>, <<"__defineSetter__">>,
      <<"__lookupGetter__">>, <<"__lookupSetter__">> }

\* the member of Object.prototype a key names: a function or an object, truthy,
\* written here as the text the driver binds for it
inherited(key) == <<"Object.prototype">> \o key

\* PRODUCT_TO_ASSET[productName] on the object literal: its own two keys, then the
\* keys it inherits, and <<>> (undefined) for any other name
PRODUCT_TO_ASSET(productName) ==
    IF productName = IDeCoProduct THEN IDeCo
    ELSE IF productName = SBIProduct THEN <<"toushin", "/", "SBI">>
    ELSE IF productName \in ObjectPrototypeKeys THEN inherited(productName)
    ELSE <<>>

\* the saves a request is made with
ValuationMonths == {<<2024, 4>>, <<2024, 5>>}
Valuations ==
    { << [productName |-> <<"x">>, marketValue |-> 9000] >>,
      << [productName |-> IDeCoProduct, marketValue |-> 6000] >>,
      << [productName |-> <<"constructor">>, marketValue |-> 9000] >>,
      << [productName |-> <<"x">>, marketValue |-> 9000],
         [productName |-> IDeCoProduct, marketValue |-> 6000] >> }

\* the requests a behaviour of SpecSnapshots starts
MaxRequests == 3

\* `for (const v of vals)` from index k on, with `if (!assetName) continue`: the
\* next valuation whose lookup is truthy (an inherited key is), or the answer when
\* there is none
nextValuation(v, k) ==
    LET known == {j \in k..Len(v.vals) : PRODUCT_TO_ASSET(v.vals[j].productName) # <<>>}
    IN  IF known = {} THEN [v EXCEPT !.pc = "done", !.response = [status |-> 200, success |-> TRUE]]
        ELSE [v EXCEPT !.pc = "upsertValuation",
                       !.k = CHOOSE j \in known : \A l \in known : j <= l]

valAsset(v) == PRODUCT_TO_ASSET(v.vals[v.k].productName)

\* lines 133-144: the request arrives
SaveValuations(year, month, vals) ==
    /\ val.pc \in {"idle", "done"}
    /\ val' = nextValuation([ pc |-> "upsertValuation", year |-> year, month |-> month,
                              vals |-> vals, k |-> 1, openingBalance |-> 0,
                              existing |-> 0, assetType |-> "investment",
                              response |-> [status |-> 0] ], 1)
    /\ UNCHANGED <<transactions, assetSnapshots, investmentValuations, req,
                   hist, call, parked, gemini>>

\* lines 147-153: upsert the valuation
UpsertValuation ==
    /\ val.pc = "upsertValuation"
    /\ LET v == val.vals[val.k]
           row == [ year |-> val.year, month |-> val.month,
                    productName |-> v.productName, marketValue |-> v.marketValue ]
           Same(r) == /\ r.year = row.year /\ r.month = row.month
                      /\ r.productName = row.productName
       IN  investmentValuations' =
               {r \in investmentValuations : ~Same(r)} \cup {row}
    /\ val' = [val EXCEPT !.pc = "selectPrevSnap"]
    /\ UNCHANGED <<transactions, assetSnapshots, req, admitted, hist, call, parked, gemini>>

\* lines 157-168: the closing balance of the snapshot of the calendar month
\* before, 0 when that month has none
SelectPrevSnap ==
    /\ val.pc = "selectPrevSnap"
    /\ LET prevMonth == IF val.month = 1 THEN <<val.year - 1, 12>>
                        ELSE <<val.year, val.month - 1>>
           prevSnap == {r \in assetSnapshots :
                          snapshotKey(r) = <<valAsset(val), prevMonth[1], prevMonth[2]>>}
       IN  IF prevSnap = {}
           THEN val' = [val EXCEPT !.pc = "selectExistingSnap", !.openingBalance = 0]
           ELSE \E r \in prevSnap :
                  val' = [val EXCEPT !.pc = "selectExistingSnap",
                                     !.openingBalance = r.closingBalance]
    /\ UNCHANGED <<transactions, assetSnapshots, investmentValuations, req, admitted,
                   hist, call, parked, gemini>>

\* lines 171-180: is there a snapshot of this account and month
SelectExistingSnap ==
    /\ val.pc = "selectExistingSnap"
    /\ LET existing == {r \in assetSnapshots :
                          snapshotKey(r) = <<valAsset(val), val.year, val.month>>}
       IN  val' = [val EXCEPT !.existing = Cardinality(existing),
                              !.pc = IF existing # {} THEN "updateSnapshot"
                                     ELSE "selectPrevType"]
    /\ UNCHANGED <<transactions, assetSnapshots, investmentValuations, req, admitted,
                   hist, call, parked, gemini>>

\* lines 182-186: update the snapshot found (rows are never deleted and an update
\* keeps the key, so the row of the id found is the row of the key)
UpdateSnapshot ==
    /\ val.pc = "updateSnapshot"
    /\ LET key == <<valAsset(val), val.year, val.month>> IN
       assetSnapshots' =
           {r \in assetSnapshots : snapshotKey(r) # key}
           \cup {[r EXCEPT !.closingBalance = val.vals[val.k].marketValue,
                           !.openingBalance = val.openingBalance] :
                   r \in {x \in assetSnapshots : snapshotKey(x) = key}}
    /\ val' = nextValuation(val, val.k + 1)
    /\ UNCHANGED <<transactions, investmentValuations, req, admitted, hist, call, parked, gemini>>

\* lines 189-193: the asset type of some snapshot of the account (limit 1, no order)
SelectPrevType ==
    /\ val.pc = "selectPrevType"
    /\ LET prevType == {r.assetType : r \in {x \in assetSnapshots :
                                               x.assetName = valAsset(val)}}
       IN  IF prevType = {}
           THEN val' = [val EXCEPT !.pc = "insertSnapshot", !.assetType = "investment"]
           ELSE \E t \in prevType :
                  val' = [val EXCEPT !.pc = "insertSnapshot", !.assetType = t]
    /\ UNCHANGED <<transactions, assetSnapshots, investmentValuations, req, admitted,
                   hist, call, parked, gemini>>

\* the snapshot table with one row more
insertSnapshot(table, s) == table \cup {s}

\* lines 194-201: insert the snapshot; asset_snapshots_uniq rejects a second row
\* of the key, and the catch clause answers 500
InsertSnapshot ==
    /\ val.pc = "insertSnapshot"
    /\ LET s == [ assetName |-> valAsset(val), year |-> val.year, month |-> val.month,
                  openingBalance |-> val.openingBalance,
                  closingBalance |-> val.vals[val.k].marketValue,
                  assetType |-> val.assetType ]
       IN  IF \E r \in assetSnapshots : snapshotKey(r) = snapshotKey(s)
           THEN /\ val' = [val EXCEPT !.pc = "done", !.response = errorResponse(500, "save failed")]
                /\ UNCHANGED assetSnapshots
           ELSE /\ assetSnapshots' = insertSnapshot(assetSnapshots, s)
                /\ val' = nextValuation(val, val.k + 1)
    /\ UNCHANGED <<transactions, investmentValuations, req, admitted, hist, call, parked, gemini>>

\* lines 206-209: an awaited statement rejects
ValuationDbError ==
    /\ val.pc \in {"upsertValuation", "selectPrevSnap", "selectExistingSnap",
                   "updateSnapshot", "selectPrevType", "insertSnapshot"}
    /\ val' = [val EXCEPT !.pc = "done", !.response = errorResponse(500, "save failed")]
    /\ UNCHANGED <<transactions, assetSnapshots, investmentValuations, req, admitted,
                   hist, call, parked, gemini>>

\* asset-ledger imports and valuation saves, interleaved statement by statement
NextSnapshots ==
    \/ \E a \in AssetFiles :
          admitted < MaxRequests /\ POST(NoFile, a) /\ admitted' = admitted + 1
    \/ ParseAsset
    \/ UpsertBatch
    \/ ExtractTransfers
    \/ DeleteSentinel
    \/ SelectExisting
    \/ InsertTransfer
    \/ Respond
    \/ DbError
    \/ \E ym \in ValuationMonths, vals \in Valuations :
          /\ admitted < MaxRequests
          /\ SaveValuations(ym[1], ym[2], vals)
          /\ admitted' = admitted + 1
    \/ UpsertValuation
    \/ SelectPrevSnap
    \/ SelectExistingSnap
    \/ UpdateSnapshot
    \/ SelectPrevType
    \/ InsertSnapshot
    \/ ValuationDbError

SpecSnapshots == Init /\ [][NextSnapshots]_vars

----------------------------------------------------------------------------
(* Imports one after the other, counted from the empty tables *)

NextOrder ==
    \/ \E c \in CombinedFiles \cup {NoFile}, a \in AssetFiles \cup {NoFile} :
          /\ admitted < MaxRequests
          /\ POST(c, a)
          /\ admitted' = admitted + 1
    \/ ParseCombined
    \/ DeletePeriod
    \/ InsertBatch
    \/ ParseAsset
    \/ UpsertBatch
    \/ ExtractTransfers
    \/ DeleteSentinel
    \/ SelectExisting
    \/ InsertTransfer
    \/ Respond
    \/ DbError

SpecOrder == Init /\ [][NextOrder]_vars

----------------------------------------------------------------------------
(* Calls of the pure functions of csv-parser.ts *)

CallParseCombined ==
    /\ call.op = "text"
    /\ call' = [ op |-> "parseCombinedReport", csvText |-> call.csvText,
                 out |-> parseCombinedReport(call.csvText, FromYear) ]
    /\ UNCHANGED <<transactions, assetSnapshots, req, investmentValuations, val, admitted,
                   hist, parked, gemini>>

CallParseAsset ==
    /\ call.op = "text"
    /\ call' = [ op |-> "parseAssetReport", csvText |-> call.csvText,
                 out |-> parseAssetReport(call.csvText, FromYear) ]
    /\ UNCHANGED <<transactions, assetSnapshots, req, investmentValuations, val, admitted,
                   hist, parked, gemini>>

CallAggregate ==
    /\ call.op = "entries"
    /\ call' = [ op |-> "aggregateAssetSnapshots", entries |-> call.entries,
                 out |-> aggregateAssetSnapshots(call.entries) ]
    /\ UNCHANGED <<transactions, assetSnapshots, req, investmentValuations, val, admitted,
                   hist, parked, gemini>>

CallInferAssetType ==
    /\ call.op = "name"
    /\ call' = [op |-> "inferAssetType", name |-> call.name, out |-> inferAssetType(call.name)]
    /\ UNCHANGED <<transactions, assetSnapshots, req, investmentValuations, val, admitted,
                   hist, parked, gemini>>

InitParse ==
    /\ InitTables
    /\ call \in {[op |-> "text", csvText |-> t] : t \in ParserTexts}

NextParse == CallParseCombined \/ CallParseAsset

SpecParse == InitParse /\ [][NextParse]_vars

InitAggregate ==
    /\ InitTables
    /\ call \in {[op |-> "entries", entries |-> es] : es \in SeqsUpTo(Entries, MaxEntries)}

NextAggregate == CallAggregate

SpecAggregate == InitAggregate /\ [][NextAggregate]_vars

InitClassify ==
    /\ InitTables
    /\ call \in {[op |-> "name", name |-> n] : n \in AccountNames}

NextClassify == CallInferAssetType

SpecClassify == InitClassify /\ [][NextClassify]_vars

----------------------------------------------------------------------------
(* Claims about the pure functions *)

\* the snapshots of one account in a list of snapshots
SnapshotsOf(snaps, assetName) ==
    {snaps[i] : i \in {j \in 1..Len(snaps) : snaps[j].assetName = assetName}}

YearMonth(s) == s.year * 100 + s.month

\* Within the set S of snapshots of one account, s opens with the closing balance
\* of the snapshot just before it by year*100+month, or with its own closing
\* balance when it is the earliest.
OpensFromPrevious(S, s) ==
    LET before == {p \in S : YearMonth(p) < YearMonth(s)} IN
    IF before = {} THEN s.openingBalance = s.closingBalance
    ELSE \E p \in before :
           /\ \A q \in before : YearMonth(q) <= YearMonth(p)
           /\ s.openingBalance = p.closingBalance

\* C5: in the output of aggregateAssetSnapshots, every account with two or more
\* snapshots has each snapshot opening with the closing balance of the account's
\* immediately preceding snapshot (by year*100+month), and its earliest snapshot
\* opening with its own closing balance.
C5_OpeningChain ==
    call.op = "aggregateAssetSnapshots" =>
        \A a \in {call.out[i].assetName : i \in 1..Len(call.out)} :
            LET S == SnapshotsOf(call.out, a) IN
            Cardinality(S) >= 2 => \A s \in S : OpensFromPrevious(S, s)

\* C5 witness: an account whose entries arrive out of month order gets two
\* snapshots, the later one opening with the earlier one's different closing balance.
C5_Witness ==
    /\ call.op = "aggregateAssetSnapshots"
    /\ \E i, j \in 1..Len(call.entries) :
         /\ i < j
         /\ call.entries[i].assetName = call.entries[j].assetName
         /\ ~call.entries[i].isInitial /\ ~call.entries[j].isInitial
         /\ YearMonth(call.entries[j]) < YearMonth(call.entries[i])
    /\ \E s, p \in SnapshotsOf(call.out, IDeCo) :
         /\ YearMonth(p) < YearMonth(s)
         /\ s.openingBalance = p.closingBalance
         /\ s.openingBalance # s.closingBalance

\* C8: every record of parseCombinedReport whose kind is not transfer has exactly
\* one of expenseAmount and incomeAmount non-zero.
C8_ExactlyOneAmount ==
    call.op = "parseCombinedReport" =>
        \A i \in 1..Len(call.out) :
            call.out[i].type # Furikae =>
                (call.out[i].expenseAmount # 0) # (call.out[i].incomeAmount # 0)

\* the lines of a text that have at least n columns
LinesOfColumns(csvText, n) ==
    LET lines == splitLines(csvText)
    IN  {i \in 1..Len(lines) : Len(parseCSVLine(lines[i])) >= n}

\* C10: parseCombinedReport and parseAssetReport return a list for every text and
\* never raise; a row with fewer columns than its format needs (eleven, and seven
\* for the asset ledger) contributes no record.
C10_NeverFatal ==
    /\ call.op = "parseAssetReport" =>
         /\ ~call.out.threw
         /\ Len(call.out.rows) <= Cardinality(LinesOfColumns(call.csvText, 7))
    /\ call.op = "parseCombinedReport" =>
         Len(call.out) <= Cardinality(LinesOfColumns(call.csvText, 11))

----------------------------------------------------------------------------
(* Claims about the import *)

\* the rows of one period, with their multiplicities
periodBag(table, ym) == [r \in periodRows(table, ym) |-> table[r]]

finishedWith(status) == req.pc = "done" /\ req.response.status = status

\* the request just finished repeats the one before it: the same combined ledger,
\* no asset ledger, both answered 200
ImportedTwice ==
    /\ finishedWith(200)
    /\ req.combinedFile # NoFile /\ req.assetFile = NoFile
    /\ hist.previous.ok
    /\ hist.previous.combinedFile = req.combinedFile
    /\ hist.previous.assetFile = NoFile

\* C1: importing the same combined ledger twice in a row leaves the transactions
\* table as the first import left it: no row of the file twice, none lost.
C1_ReimportIdempotent == ImportedTwice => transactions = hist.transactions

\* C1 witness: the second import of a file has finished, over a table that also
\* holds rows of a period the file does not touch.
C1_Witness ==
    /\ ImportedTwice
    /\ \E r \in BagToSet(transactions) :
         \A i \in 1..Len(req.yearMonths) : ~inPeriod(r, req.yearMonths[i])
    /\ \E r \in BagToSet(transactions) : inPeriod(r, req.yearMonths[1])

\* combined ledger c and asset ledger a have both been imported: c then a, a then
\* c, or both in the request just finished
BothImported(c, a) ==
    /\ finishedWith(200)
    /\ \/ req.combinedFile = c /\ req.assetFile = a
       \/ /\ req.combinedFile = NoFile /\ req.assetFile = a
          /\ hist.previous.ok
          /\ hist.previous.combinedFile = c /\ hist.previous.assetFile = NoFile
       \/ /\ req.combinedFile = c /\ req.assetFile = NoFile
          /\ hist.previous.ok
          /\ hist.previous.combinedFile = NoFile /\ hist.previous.assetFile = a

\* how many rows of a bag satisfy a condition on date, account and amount
transferCount(table, date, assetName, amount) ==
    BagCardinality([r \in {x \in BagToSet(table) :
                             /\ x.type = Furikae
                             /\ x.date = date
                             /\ x.assetName = assetName
                             /\ x.amount = amount} |-> table[r]])

\* C2 as stated: a transfer of the combined ledger and an extracted transfer of
\* the same date, account and amount leave exactly one transfer row of that
\* date, account and amount once both files are imported.
C2_OneRowPerMovement ==
    \A c \in CombinedFiles, a \in AssetFiles :
        BothImported(c, a) =>
            LET real == parseCombinedReport(text(c), FromYear)
                extracted == extractInvestmentTransfers(text(a), FromYear)
            IN  \A i \in 1..Len(real), j \in 1..Len(extracted) :
                    ( /\ real[i].type = Furikae
                      /\ real[i].date = extracted[j].date
                      /\ real[i].assetName = extracted[j].assetName
                      /\ real[i].amount = extracted[j].amount )
                    => transferCount(transactions, real[i].date, real[i].assetName,
                                     real[i].amount) = 1

\* the rows of the combined ledger that the select of the transfer phase matches
\* with the extracted transfer t
matchingReal(real, t) ==
    {i \in 1..Len(real) :
        /\ real[i].type = Furikae
        /\ real[i].category = Furikae
        /\ real[i].memo # Sentinel
        /\ real[i].date = t.date
        /\ real[i].assetName = t.assetName
        /\ real[i].incomeAmount = t.incomeAmount}

\* the transfer rows of the combined ledger with the date, account and amount of t
sameMovement(real, t) ==
    {i \in 1..Len(real) :
        /\ real[i].type = Furikae
        /\ real[i].date = t.date
        /\ real[i].assetName = t.assetName
        /\ real[i].amount = t.amount}

\* C2 amended: when the combined ledger holds a transfer row of category transfer,
\* with a memo other than the sentinel, whose date, account and income amount are
\* those of an extracted transfer, then once both files are imported the table
\* holds no synthetic row for that movement: its transfer rows of that date,
\* account and amount are the rows of the combined ledger, one for one.
C2_NoSyntheticBesideReal ==
    \A c \in CombinedFiles, a \in AssetFiles :
        BothImported(c, a) =>
            LET real == parseCombinedReport(text(c), FromYear)
                extracted == extractInvestmentTransfers(text(a), FromYear)
            IN  \A j \in 1..Len(extracted) :
                    matchingReal(real, extracted[j]) # {} =>
                        /\ transferCount(transactions, extracted[j].date,
                                         extracted[j].assetName, extracted[j].amount)
                             = Cardinality(sameMovement(real, extracted[j]))
                        /\ \A r \in BagToSet(transactions) :
                             (r.date = extracted[j].date
                                /\ r.assetName = extracted[j].assetName
                                /\ r.incomeAmount = extracted[j].incomeAmount)
                             => r.memo # Sentinel

\* C2 witness: the asset ledger was imported after the combined ledger that holds
\* the same transfer; the select found the real row and the insert was skipped.
C2_Witness ==
    /\ BothImported("transfer.csv", "ideco-mar.csv")
    /\ req.assetFile = "ideco-mar.csv"
    /\ req.existing = 1
    /\ req.transfersInserted = 0
    /\ transferCount(transactions, req.investmentTransfers[1].date, IDeCo, 1000) = 1

\* the rows of a parsed batch that fall in one period, as the insert stores them
newPeriodBag(parsed, ym) == periodBag(insertRows(EmptyBag, parsed), ym)

\* C3: when a database operation fails during a combined-ledger import, every
\* period of the batch holds its complete new rows or still its rows of before.
C3_NoHalfReplacedPeriod ==
    ( /\ finishedWith(500)
      /\ req.combinedFile # NoFile /\ req.assetFile = NoFile )
    => \A i \in 1..Len(req.yearMonths) :
         LET ym == req.yearMonths[i] IN
         \/ periodBag(transactions, ym) = newPeriodBag(req.parsed, ym)
         \/ periodBag(transactions, ym) = periodBag(hist.transactions, ym)

\* the periods whose delete was issued and whose new rows are not yet inserted
deletedNotReinserted ==
    IF req.pc = "deletePeriod" THEN {req.yearMonths[j] : j \in 1..(req.i - 1)}
    ELSE IF req.pc = "insertBatch"
    THEN {ym \in {req.yearMonths[j] : j \in 1..Len(req.yearMonths)} :
            \E k \in (req.i + 1)..Len(req.parsed) : inPeriod(req.parsed[k], ym)}
    ELSE {}

\* C4: during a combined-ledger import at most one period is in the
\* deleted-but-not-yet-reinserted state.
C4_OnePeriodAtATime == Cardinality(deletedNotReinserted) <= 1

\* the account names of the persisted snapshots
snapshotAccounts == {s.assetName : s \in assetSnapshots}

\* the snapshots a successful import of an asset ledger upserts
snapshotsOfFile(file) ==
    LET snapshots == aggregateAssetSnapshots(parseAssetReport(text(file), FromYear).rows)
    IN  {snapshots[j] : j \in 1..Len(snapshots)}

\* two asset ledgers were imported one after the other, both answered 200, and
\* the table held nothing but the first one's snapshots in between
TwoAssetImports ==
    /\ finishedWith(200)
    /\ req.combinedFile = NoFile
    /\ hist.previous.ok
    /\ hist.previous.combinedFile = NoFile
    /\ hist.assetSnapshots = snapshotsOfFile(hist.previous.assetFile)

\* C6: after successful asset-ledger imports every persisted snapshot opens with
\* the closing balance of the account's preceding persisted snapshot, the
\* earliest one with its own closing balance.
C6_PersistedChain ==
    TwoAssetImports =>
        \A a \in snapshotAccounts :
            LET S == {s \in assetSnapshots : s.assetName = a}
            IN  \A s \in S : OpensFromPrevious(S, s)

\* the input of the request fails validation: no file, or a combined ledger
\* with no transaction
failsValidation ==
    /\ req.pc # "idle"
    /\ \/ req.combinedFile = NoFile /\ req.assetFile = NoFile
       \/ /\ req.combinedFile # NoFile
          /\ Len(parseCombinedReport(text(req.combinedFile), FromYear)) = 0

\* C9: a request that fails validation is answered with a non-200 status and an
\* error message and writes nothing: both tables stay as they were when the
\* request arrived, also when an asset ledger came with it.
C9_ValidationNoWrite ==
    failsValidation =>
        /\ transactions = hist.transactions
        /\ assetSnapshots = hist.assetSnapshots
        /\ req.pc = "done" =>
             /\ req.response.status = 400
             /\ req.response.error \in {"no file", "no transactions"}

\* C9 witness: a combined ledger without a transaction came with a well-formed
\* asset ledger, into tables that hold rows; the answer is 400.
C9_Witness ==
    /\ finishedWith(400)
    /\ req.combinedFile = "header.csv"
    /\ req.assetFile = "ideco-mar.csv"
    /\ transactions # EmptyBag
    /\ transactions = hist.transactions
    /\ assetSnapshots = hist.assetSnapshots

----------------------------------------------------------------------------
(* Claims about the snapshot table *)

\* an import step that upserts a batch of snapshots
upsertStep ==
    /\ req.pc = "upsertBatch"
    /\ req' # req
    /\ req'.pc # "done"

C7_Unique ==
    \A r1, r2 \in assetSnapshots : snapshotKey(r1) = snapshotKey(r2) => r1 = r2

C7_Overwrites ==
    upsertStep =>
        LET batch == slice(req.snapshots, req.i, req.i + SNAPSHOT_BATCH)
            keys == {snapshotKey(batch[j]) : j \in 1..Len(batch)}
            present == {snapshotKey(r) : r \in assetSnapshots}
        IN  /\ \A j \in 1..Len(batch) :
                 {r \in assetSnapshots' : snapshotKey(r) = snapshotKey(batch[j])}
                   = {batch[j]}
            /\ Cardinality(assetSnapshots')
                 = Cardinality(assetSnapshots) + Cardinality(keys \ present)

\* C7: under every interleaving of asset-ledger imports and valuation saves the
\* asset_snapshots table holds at most one row per (account, year, month), and
\* an imported snapshot whose key exists overwrites that row's balances and
\* type instead of adding a row.
C7_OneSnapshotPerKey == []C7_Unique /\ [][C7_Overwrites]_vars

\* C7 witness: an import has upserted a snapshot whose key held other balances
\* when the request arrived, while a valuation save was in flight.
C7_Witness ==
    /\ req.pc \in {"extract", "deleteSentinel", "selectExisting", "insertTransfer",
                   "respond", "done"}
    /\ val.pc \notin {"idle", "done"}
    /\ \E j \in 1..Len(req.snapshots) :
         /\ req.snapshots[j] \in assetSnapshots
         /\ \E r \in hist.assetSnapshots :
              /\ snapshotKey(r) = snapshotKey(req.snapshots[j])
              /\ r # req.snapshots[j]

\* the lines of a text that parseCombinedReport accepts, in file order
RECURSIVE acceptedLines(_)
acceptedLines(lines) ==
    IF lines = <<>> THEN <<>>
    ELSE (IF combinedRow(Head(lines), FromYear) # <<>> THEN <<Head(lines)>> ELSE <<>>)
         \o acceptedLines(Tail(lines))

\* the columns of a line as they stand in the file: cut at every comma (no line
\* of the inputs holds a comma inside quotes in the columns read here)
RECURSIVE rawColumns(_, _)
rawColumns(line, current) ==
    IF line = <<>> THEN <<current>>
    ELSE IF Head(line) = "," THEN <<current>> \o rawColumns(Tail(line), <<>>)
    ELSE rawColumns(Tail(line), Append(current, Head(line)))

\* the last column of a line as it stands in the file
lastColumn(line) == LET cols == rawColumns(line, <<>>) IN cols[Len(cols)]

\* C11: for every accepted combined-ledger row, excludeFromPl is false exactly
\* when the exclude column, trimmed, is the literal "-", and true for every other
\* value, the empty string included.
C11_ExcludeFlag ==
    call.op = "parseCombinedReport" =>
        LET accepted == acceptedLines(splitLines(call.csvText))
        IN  /\ Len(call.out) = Len(accepted)
            /\ \A i \in 1..Len(accepted) :
                 call.out[i].excludeFromPl = (trim(lastColumn(accepted[i])) # <<"-">>)

\* C11 witness: one text gave a row with the dash between blanks, which is
\* included, and a row with an empty or other exclude column, which is excluded.
C11_Witness ==
    /\ call.op = "parseCombinedReport"
    /\ Len(call.out) = 2
    /\ \E i, j \in 1..2 :
         /\ ~call.out[i].excludeFromPl
         /\ lastColumn(acceptedLines(splitLines(call.csvText))[i]) = <<" ", "-", " ">>
         /\ call.out[j].excludeFromPl
         /\ lastColumn(acceptedLines(splitLines(call.csvText))[j]) \in {<<>>, <<"x">>}

\* the positions of the dated, non-initial entries of an account in a month
monthEntries(entries, assetName, year, month) ==
    {i \in 1..Len(entries) :
        /\ entries[i].assetName = assetName
        /\ ~entries[i].isInitial
        /\ entries[i].year = year
        /\ entries[i].month = month}

\* C12: the closing balance of every snapshot of aggregateAssetSnapshots is the
\* balance-after of the last non-initial entry, in input order, of that account
\* dated in that month.
C12_ClosingIsLastEntry ==
    call.op = "aggregateAssetSnapshots" =>
        \A k \in 1..Len(call.out) :
            LET s == call.out[k]
                at == monthEntries(call.entries, s.assetName, s.year, s.month)
            IN  /\ at # {}
                /\ s.closingBalance
                     = call.entries[CHOOSE i \in at : \A j \in at : j <= i].balance

\* C12 witness: an account has two entries of one month with different balances,
\* and the snapshot of the month closes with the later one's.
C12_Witness ==
    /\ call.op = "aggregateAssetSnapshots"
    /\ \E i, j \in 1..Len(call.entries) :
         /\ i < j
         /\ j = Len(call.entries)
         /\ monthEntries(call.entries, call.entries[j].assetName, call.entries[j].year,
                         call.entries[j].month) = {i, j}
         /\ call.entries[i].balance # call.entries[j].balance
         /\ \E k \in 1..Len(call.out) :
              /\ call.out[k].assetName = call.entries[j].assetName
              /\ call.out[k].closingBalance = call.entries[j].balance

\* C13: whatever the order of the entries, the closing balance of every snapshot
\* of aggregateAssetSnapshots is the balance-after of an entry with the latest
\* date of that account and month.
C13_ClosingIsLatestDate ==
    call.op = "aggregateAssetSnapshots" =>
        \A k \in 1..Len(call.out) :
            LET s == call.out[k]
                at == monthEntries(call.entries, s.assetName, s.year, s.month)
            IN  \E i \in at :
                    /\ \A j \in at : ~StringLess(call.entries[i].date, call.entries[j].date)
                    /\ s.closingBalance = call.entries[i].balance

\* the (account, year, month) of the dated, non-initial entries
activeMonths(entries) ==
    { <<entries[i].assetName, entries[i].year, entries[i].month>> :
        i \in {j \in 1..Len(entries) : ~entries[j].isInitial /\ entries[j].year # 0} }

\* C14: aggregateAssetSnapshots emits exactly one snapshot for each (account,
\* year, month) with a dated, non-initial entry and none for any other: a month
\* without activity between two active months has no snapshot.
C14_OneSnapshotPerActiveMonth ==
    call.op = "aggregateAssetSnapshots" =>
        /\ {snapshotKey(call.out[k]) : k \in 1..Len(call.out)} = activeMonths(call.entries)
        /\ Len(call.out) = Cardinality(activeMonths(call.entries))

\* C14 witness: an account is active in 2023-12 and in 2024-10, more than once in
\* one of them, and not in between; it has exactly those two snapshots.
C14_Witness ==
    /\ call.op = "aggregateAssetSnapshots"
    /\ Len(call.entries) = 3
    /\ activeMonths(call.entries) = {<<IDeCo, 2023, 12>>, <<IDeCo, 2024, 10>>}
    /\ Len(call.out) = 2

\* the entries without the initial-balance markers
withoutInitial(entries) == SelectSeq(entries, LAMBDA e : ~e.isInitial)

\* the entries with another balance in every initial-balance marker
rebalanced(entries) ==
    [i \in 1..Len(entries) |->
        IF entries[i].isInitial THEN [entries[i] EXCEPT !.balance = entries[i].balance + 949]
        ELSE entries[i]]

\* the first snapshot of every account opens with its own closing balance
firstOpensWithOwnClosing(snaps) ==
    \A k \in 1..Len(snaps) :
        (\A j \in 1..(k - 1) : snaps[j].assetName # snaps[k].assetName)
        => snaps[k].openingBalance = snaps[k].closingBalance

\* C15 as stated: removing the initial-balance markers or changing their balance
\* leaves the output of aggregateAssetSnapshots unchanged, and the first snapshot
\* of an account opens with its own closing balance.
C15_MarkersLeaveOutputUnchanged ==
    call.op = "aggregateAssetSnapshots" =>
        /\ aggregateAssetSnapshots(withoutInitial(call.entries)) = call.out
        /\ aggregateAssetSnapshots(rebalanced(call.entries)) = call.out
        /\ firstOpensWithOwnClosing(call.out)

\* C15 amended: removing the initial-balance markers or changing their balance
\* leaves the snapshots of aggregateAssetSnapshots unchanged, account by account
\* and in the same month order, and the first snapshot of an account opens with
\* its own closing balance; the place of an account in the output list is that of
\* its first entry, marker or not, so the accounts can come in another order.
C15_MarkersLeaveSnapshotsUnchanged ==
    call.op = "aggregateAssetSnapshots" =>
        LET bare == aggregateAssetSnapshots(withoutInitial(call.entries))
        IN  /\ Len(bare) = Len(call.out)
            /\ \A a \in {call.entries[i].assetName : i \in 1..Len(call.entries)} :
                 SelectSeq(bare, LAMBDA s : s.assetName = a)
                   = SelectSeq(call.out, LAMBDA s : s.assetName = a)
            /\ aggregateAssetSnapshots(rebalanced(call.entries)) = call.out
            /\ firstOpensWithOwnClosing(call.out)

\* C15 witness: the marker of an account comes first, with a balance other than
\* that of the account's entry further on; the account's snapshot opens and
\* closes with the entry's balance.
C15_Witness ==
    /\ call.op = "aggregateAssetSnapshots"
    /\ Len(call.entries) = 3
    /\ call.entries[1] = InitialOf(Bank, 50)
    /\ call.entries[2].assetName = IDeCo /\ ~call.entries[2].isInitial
    /\ call.entries[3].assetName = Bank /\ ~call.entries[3].isInitial
    /\ Len(call.out) = 2
    /\ call.out[1].assetName = Bank
    /\ call.out[1].openingBalance = call.entries[3].balance
    /\ call.out[1].closingBalance = call.entries[3].balance

----------------------------------------------------------------------------
(* Claims about the rows of the transactions table *)

\* the rows a step adds to the transactions table
insertedRows ==
    {r \in BagToSet(transactions') : CopiesIn(r, transactions') > CopiesIn(r, transactions)}

C16_StepOwnsSentinel ==
    \A r \in insertedRows :
        /\ r.memo = Sentinel => req.pc = "insertTransfer"
        /\ req.pc = "insertTransfer" => r.type = Furikae /\ r.memo = Sentinel

\* C16: a row with the memo __asset_report__ enters the transactions table only
\* by the transfer step of an asset-ledger import, every row that step inserts
\* has kind transfer and that memo, and a combined-ledger import never inserts a
\* row with that memo.
C16_SentinelOwnedByExtractor == [][C16_StepOwnsSentinel]_vars

----------------------------------------------------------------------------
(* Claims about the rows of the parsers *)

\* the first column of a line, trimmed
firstColumn(line) == trim(parseCSVLine(line)[1])

\* the line names an account: its first column is non-empty and does not begin
\* like a date; `kept` asks in addition for a row that the parser does not drop,
\* of six columns or more and not the header row
namesAccount(line, kept) ==
    /\ firstColumn(line) # <<>>
    /\ ~startsWithYear(firstColumn(line))
    /\ kept => Len(parseCSVLine(line)) >= 6 /\ firstColumn(line) # <<"namae">>

\* the account named by the most recent naming line at or before line i, <<>>
\* when there is none
namedAt(lines, i, kept) ==
    LET at == {j \in 1..i : namesAccount(lines[j], kept)}
    IN  IF at = {} THEN <<>>
        ELSE firstColumn(lines[CHOOSE j \in at : \A k \in at : k <= j])

\* the line gives an entry once an account is known
givesEntry(line) == assetRow(line, <<"?">>, FromYear).rows # <<>>

\* the accounts of the entries, in file order, when every entry-giving line
\* goes to the account named at it
RECURSIVE attributions(_, _, _)
attributions(lines, i, kept) ==
    IF i > Len(lines) THEN <<>>
    ELSE (IF givesEntry(lines[i]) /\ namedAt(lines, i, kept) # <<>>
          THEN <<namedAt(lines, i, kept)>> ELSE <<>>)
         \o attributions(lines, i + 1, kept)

\* the accounts of the entries that parseAssetReport returned
accountsOf(rows) == [k \in 1..Len(rows) |-> rows[k].assetName]

\* C17 as stated: every entry of parseAssetReport goes to the account named by
\* the most recent row, at or before it, whose first column is non-empty and not
\* a date; rows before any such row give no entry.
C17_AttributedToLastName ==
    (call.op = "parseAssetReport" /\ ~call.out.threw) =>
        accountsOf(call.out.rows) = attributions(splitLines(call.csvText), 1, FALSE)

\* C17 amended: every entry of parseAssetReport goes to the account named by the
\* most recent row, at or before it, that has six columns or more and whose first
\* column is non-empty, is not the header word and does not begin with a
\* four-digit year; rows before any such row give no entry, and a later such row
\* switches the account of the rows that follow.
C17_AttributedToLastKeptName ==
    (call.op = "parseAssetReport" /\ ~call.out.threw) =>
        accountsOf(call.out.rows) = attributions(splitLines(call.csvText), 1, TRUE)

\* C17 witness: a row without a name follows the row that names the bank account,
\* and both entries are the bank account's.
C17_Witness ==
    /\ call.op = "parseAssetReport"
    /\ ~call.out.threw
    /\ Len(call.out.rows) = 2
    /\ accountsOf(call.out.rows) = <<Bank, Bank>>
    /\ firstColumn(splitLines(call.csvText)[Len(splitLines(call.csvText))]) = <<>>

\* raw begins with a date, YYYY年MM月DD日
beginsWithDate(raw) == DateAt(raw, 1)

\* the date a column that begins with a date stands for, YYYY-MM-DD
dateOfColumn(raw) ==
    SubSeq(raw, 1, 4) \o <<"-">> \o SubSeq(raw, 6, 7) \o <<"-">> \o SubSeq(raw, 9, 10)

\* the year a column that begins with a date stands for
yearOfColumn(raw) == digitsValue(SubSeq(raw, 1, 4))

\* line i is a well-formed dated row of the combined ledger: eleven columns or
\* more, the first one beginning with a date
wellFormedCombined(lines, i) ==
    LET cols == parseCSVLine(lines[i])
    IN  Len(cols) >= 11 /\ beginsWithDate(cols[1])

\* line i is a well-formed dated row of the asset ledger: seven columns or more,
\* the second one beginning with a date, not the header row, under a known account
wellFormedAsset(lines, i) ==
    LET cols == parseCSVLine(lines[i])
    IN  /\ Len(cols) >= 7
        /\ beginsWithDate(trim(cols[2]))
        /\ firstColumn(lines[i]) # <<"namae">>
        /\ namedAt(lines, i, TRUE) # <<>>

\* the dates of the well-formed dated rows from the cutoff year on, in file
\* order; `asset` says which ledger the lines are of
RECURSIVE datesFrom(_, _, _, _)
datesFrom(lines, i, fromYear, asset) ==
    IF i > Len(lines) THEN <<>>
    ELSE LET raw == IF asset THEN trim(parseCSVLine(lines[i])[2])
                    ELSE parseCSVLine(lines[i])[1]
             wellFormed == IF asset THEN wellFormedAsset(lines, i)
                           ELSE wellFormedCombined(lines, i)
         IN  (IF wellFormed /\ yearOfColumn(raw) >= fromYear
              THEN <<dateOfColumn(raw)>> ELSE <<>>)
             \o datesFrom(lines, i + 1, fromYear, asset)

\* the dates of the dated records of a list
datesOf(rows) ==
    LET dated == SelectSeq(rows, LAMBDA r : r.date # <<>>)
    IN  [k \in 1..Len(dated) |-> dated[k].date]

\* C18: with the cutoff year Y no dated record of parseCombinedReport or
\* parseAssetReport has a year below Y, and every well-formed dated row of year Y
\* or later gives exactly one record, the records in file order.
C18_CutoffYear ==
    /\ call.op = "parseCombinedReport" =>
         /\ \A k \in 1..Len(call.out) : call.out[k].year >= FromYear
         /\ datesOf(call.out) = datesFrom(splitLines(call.csvText), 1, FromYear, FALSE)
    /\ call.op = "parseAssetReport" =>
         /\ \A k \in 1..Len(call.out.rows) :
              call.out.rows[k].date # <<>> => call.out.rows[k].year >= FromYear
         /\ datesOf(call.out.rows) = datesFrom(splitLines(call.csvText), 1, FromYear, TRUE)

----------------------------------------------------------------------------
(* Claims about the classifier *)

AssetTypes == {"bank", "credit", "investment", "ic_card", "qr_pay", "cash", "other"}

\* the rules as the specification orders them: a type and the words that give it
TypeRules ==
    << <<"credit", {"kaado", "kureka", "NICOS", "kariire", "roon", "miharaikin"}>>,
       <<"investment", {"shoken", "iDeCo", "toushin", "MMF", "kabu", "ETF"}>>,
       <<"ic_card", {"PASMO", "suica", "Suica", "IC"}>>,
       <<"qr_pay", {"PayPay", "LINE Pay", "hachipei", "merupei", "pei"}>>,
       <<"cash", {"genkin", "osaifu", "saifu", "futo", "seisanyo"}>>,
       <<"bank", {"yucho", "mitsubishi", "SBI", "rokin", "mizuho", "risona",
                  "osakashoko", "ginko", "kinko"}>> >>

\* the rules a name matches
rulesMatching(name) ==
    {k \in 1..Len(TypeRules) : \E i \in 1..Len(name) : name[i] \in TypeRules[k][2]}

\* the type of the first rule a name matches, other when it matches none
firstMatch(name) ==
    IF rulesMatching(name) = {} THEN "other"
    ELSE TypeRules[CHOOSE k \in rulesMatching(name) :
                       \A j \in rulesMatching(name) : k <= j][1]

\* every type is the type of some name
classifierOnto == \A t \in AssetTypes : \E n \in AccountNames : inferAssetType(n) = t

\* C19: inferAssetType gives every name one of bank, credit, investment, ic_card,
\* qr_pay, cash, other, and every one of them to some name; it is the type of the
\* first rule the name matches in the order credit, investment, ic_card, qr_pay,
\* cash, bank, and other for a name that matches none.
C19_FirstRuleWins ==
    /\ classifierOnto
    /\ call.op = "inferAssetType" =>
         /\ call.out \in AssetTypes
         /\ call.out = firstMatch(call.name)

\* C19 witness: a name holds a word of the investment rule and a word of the bank
\* rule, the bank word first, and is an investment account.
C19_Witness ==
    /\ call.op = "inferAssetType"
    /\ call.name = <<"SBI", "toushin">>
    /\ rulesMatching(call.name) = {2, 6}
    /\ call.out = "investment"

\* v is a numeral: digits only, after an optional sign
isNumeral(v) ==
    LET u == IF v # <<>> /\ Head(v) \in {"-", "+"} THEN Tail(v) ELSE v
    IN  u # <<>> /\ \A i \in 1..Len(u) : u[i] \in Digits

\* the integer in a column, grouping commas ignored; 0 when the column is empty
\* or not numeric
integerIn(v) ==
    LET u == removeCommas(v)
    IN  IF ~isNumeral(u) THEN 0
        ELSE IF Head(u) = "-" THEN 0 - digitsValue(Tail(u))
        ELSE IF Head(u) = "+" THEN digitsValue(Tail(u))
        ELSE digitsValue(u)

\* C20: for every accepted combined-ledger row the record has the year and month
\* of its date, expense and income amounts equal to the integers in the expense
\* and income columns, grouping commas ignored and 0 when empty or not numeric,
\* and amount equal to the expense amount when that is non-zero and to the income
\* amount otherwise, whatever the amount column holds.
C20_AmountsOfColumns ==
    call.op = "parseCombinedReport" =>
        LET accepted == acceptedLines(splitLines(call.csvText))
        IN  /\ Len(call.out) = Len(accepted)
            /\ \A i \in 1..Len(accepted) :
                 LET cols == parseCSVLine(accepted[i])
                     t == call.out[i]
                 IN  /\ t.year = digitsValue(SubSeq(t.date, 1, 4))
                     /\ t.month = digitsValue(SubSeq(t.date, 6, 7))
                     /\ t.date = dateOfColumn(cols[1])
                     /\ t.expenseAmount = integerIn(cols[6])
                     /\ t.incomeAmount = integerIn(cols[7])
                     /\ t.amount = IF integerIn(cols[6]) # 0 THEN integerIn(cols[6])
                                   ELSE integerIn(cols[7])

----------------------------------------------------------------------------
(* Failure, counts and frame of an import *)

\* the request stops at a database statement that fails
databaseFailure == req.pc \in DbSteps /\ req'.pc = "done" /\ req'.response.status # 200

\* C21: when a database operation fails during an import, the import is aborted:
\* the failing step writes nothing, the request is over, and the response is not
\* 200, has no success result, and carries the generic ingestion-failure message,
\* not the message of the database error.
C21_GenericFailureMessage ==
    [][ databaseFailure =>
          /\ transactions' = transactions
          /\ assetSnapshots' = assetSnapshots
          /\ "success" \notin DOMAIN req'.response
          /\ req'.response.error = ImportFailed
          /\ req'.response.error # thrown.message ]_vars

\* a row written by the transfer phase: transfer kind, sentinel memo
isSynthetic(r) == r.type = Furikae /\ r.memo # Null /\ r.memo = Sentinel

\* the periods of a list of rows
periodsOf(list) == {<<list[i].year, list[i].month>> : i \in 1..Len(list)}

\* how many rows of the table, in the given periods, are synthetic or are not
countRows(table, periods, synthetic) ==
    BagCardinality([r \in {x \in BagToSet(table) :
                             /\ \E ym \in periods : inPeriod(x, ym)
                             /\ isSynthetic(x) = synthetic} |-> table[r]])

\* the rows of the table that the combined-ledger phase of the request added
combinedAdded ==
    IF req.combinedFile = NoFile THEN 0
    ELSE countRows(transactions,
                   periodsOf(parseCombinedReport(text(req.combinedFile), FromYear)), FALSE)

\* the snapshots of the table that the request upserted
snapshotsUpserted ==
    IF req.assetFile = NoFile THEN 0
    ELSE Cardinality(snapshotsOfFile(req.assetFile) \cap assetSnapshots)

\* the synthetic rows of the table that the transfer phase of the request inserted
syntheticInserted ==
    IF req.assetFile = NoFile THEN 0
    ELSE countRows(transactions,
                   periodsOf(extractInvestmentTransfers(text(req.assetFile), FromYear)),
                   TRUE)

\* C22: on a successful import transactions.inserted is the number of rows the
\* combined-ledger phase added to the table, and assets.inserted is the number of
\* snapshots upserted plus the number of synthetic transfers inserted; a transfer
\* skipped as the duplicate of a real one is not counted.
C22_CountsMatchWrites ==
    finishedWith(200) =>
        /\ req.response.transactions.inserted = combinedAdded
        /\ req.response.assets.inserted = snapshotsUpserted + syntheticInserted

\* C22 witness: one request imported a combined ledger with a real transfer and
\* the asset ledger with the same transfer; the transfer was skipped and the
\* counts are one row and one snapshot.
C22_Witness ==
    /\ finishedWith(200)
    /\ req.combinedFile = "transfer.csv" /\ req.assetFile = "ideco-mar.csv"
    /\ Len(req.investmentTransfers) = 1
    /\ req.transfersInserted = 0
    /\ req.response.transactions.inserted = 1
    /\ req.response.assets.inserted = 1

\* a request that inserted a synthetic transfer and counted it
C22_InsertedCounted ==
    /\ finishedWith(200)
    /\ req.transfersInserted = 1
    /\ req.response.assets.inserted = snapshotsUpserted + 1

\* the combined-ledger phase of the request has just ended well and nothing of
\* the asset-ledger phase has run
combinedImported ==
    /\ req.pc # "idle" /\ req.combinedFile # NoFile
    /\ \/ req.pc = "parseAsset"
       \/ req.pc = "respond" /\ req.assetFile = NoFile
       \/ finishedWith(200) /\ req.assetFile = NoFile

\* the rows of a table outside the given periods, with their multiplicities
outsidePeriods(table, periods) ==
    [r \in {x \in BagToSet(table) : \A ym \in periods : ~inPeriod(x, ym)} |-> table[r]]

\* the rows of a table in the given periods, with their multiplicities
insidePeriods(table, periods) ==
    [r \in {x \in BagToSet(table) : \E ym \in periods : inPeriod(x, ym)} |-> table[r]]

\* C23: after a successful combined-ledger import every period of the parsed batch
\* holds exactly the parsed rows of that period, every row of another period is as
\* it was when the request arrived, and asset_snapshots is unchanged.
C23_ReplacesItsPeriodsOnly ==
    combinedImported =>
        LET parsed == parseCombinedReport(text(req.combinedFile), FromYear)
        IN  /\ \A ym \in periodsOf(parsed) :
                 insidePeriods(transactions, {ym})
                   = insidePeriods(insertRows(EmptyBag, parsed), {ym})
            /\ outsidePeriods(transactions, periodsOf(parsed))
                 = outsidePeriods(hist.transactions, periodsOf(parsed))
            /\ assetSnapshots = hist.assetSnapshots

\* C23 witness: the import replaced a period that held a synthetic transfer, over
\* a table with rows of another period and with snapshots.
C23_Witness ==
    /\ combinedImported /\ req.pc = "done"
    /\ \E r \in BagToSet(hist.transactions) :
         isSynthetic(r) /\ <<r.year, r.month>> \in periodsOf(req.parsed)
    /\ \E r \in BagToSet(transactions) : <<r.year, r.month>> \notin periodsOf(req.parsed)
    /\ assetSnapshots # {}

\* the request imports an asset ledger and no combined ledger
assetImport == req.pc # "idle" /\ req.combinedFile = NoFile /\ req.assetFile # NoFile

\* the periods of the transfers extracted from the asset ledger of the request
touchedPeriods == periodsOf(extractInvestmentTransfers(text(req.assetFile), FromYear))

\* C24: an asset-ledger import leaves every transaction row that is not a
\* transfer-kind row with the sentinel memo in a period of the extracted transfers
\* as it was when the request arrived: rows with another memo, sentinel-memo rows of
\* another kind, and synthetic rows of untouched periods are neither removed nor
\* changed, at any point of the request.
C24_RemovesOnlyOwnSyntheticRows ==
    assetImport =>
        \A r \in BagToSet(hist.transactions) \cup BagToSet(transactions) :
            ~(isSynthetic(r) /\ <<r.year, r.month>> \in touchedPeriods)
            => CopiesIn(r, transactions) = CopiesIn(r, hist.transactions)

\* C24 witness: the delete of the transfer phase has removed the synthetic row of
\* the touched period, and the table still holds a real row of that period, a
\* sentinel-memo row of another kind, and a synthetic row of an untouched period.
C24_Witness ==
    /\ assetImport /\ req.pc = "selectExisting"
    /\ \E r \in BagToSet(hist.transactions) :
         /\ isSynthetic(r) /\ <<r.year, r.month>> \in touchedPeriods
         /\ CopiesIn(r, transactions) = 0
    /\ \E r \in BagToSet(transactions) :
         r.memo = Sentinel /\ ~isSynthetic(r) /\ <<r.year, r.month>> \in touchedPeriods
    /\ \E r \in BagToSet(transactions) :
         isSynthetic(r) /\ <<r.year, r.month>> \notin touchedPeriods

\* the request just finished repeats the one before it: the same asset ledger,
\* no combined ledger, both answered 200
AssetImportedTwice ==
    /\ finishedWith(200)
    /\ req.combinedFile = NoFile /\ req.assetFile # NoFile
    /\ hist.previous.ok
    /\ hist.previous.assetFile = req.assetFile
    /\ hist.previous.combinedFile = NoFile

\* how many synthetic rows the table holds for an extracted transfer
syntheticCopies(table, t) == CopiesIn(transactionValues(t), table)

\* C25: importing the same asset ledger twice in a row leaves asset_snapshots and
\* transactions as the first import left them: the snapshots are overwritten in
\* place and no extracted transfer has more synthetic rows than after the first
\* import.
C25_AssetReimportIdempotent ==
    AssetImportedTwice =>
        /\ assetSnapshots = hist.assetSnapshots
        /\ transactions = hist.transactions
        /\ \A i \in 1..Len(req.investmentTransfers) :
             syntheticCopies(transactions, req.investmentTransfers[i])
               <= syntheticCopies(hist.transactions, req.investmentTransfers[i])

\* C25 witness: the second import of an asset ledger has finished; it upserted
\* snapshots that were there and deleted and reinserted a synthetic transfer.
C25_Witness ==
    /\ AssetImportedTwice
    /\ Len(req.snapshots) > 0
    /\ req.transfersInserted = 1
    /\ syntheticCopies(transactions, req.investmentTransfers[1]) = 1
    /\ \E r \in BagToSet(transactions) : ~isSynthetic(r)

----------------------------------------------------------------------------
(* Claims about two imports at once *)

\* two overlapping imports of combined ledgers have both answered 200
pairDone ==
    /\ req.pc = "done" /\ req.response.status = 200
    /\ parked.pc = "done" /\ parked.response.status = 200

\* the batch a request parsed from its combined ledger
batchOf(r) == parseCombinedReport(text(r.combinedFile), FromYear)

\* the table a successful import of a combined ledger leaves when nothing else
\* runs: the rows of other periods, and the batch
importedOver(table, file) ==
    LET parsed == parseCombinedReport(text(file), FromYear)
    IN  insertRows(outsidePeriods(table, periodsOf(parsed)), parsed)

\* the table after the two imports of the pair, one after the other
serially(first, second) ==
    importedOver(importedOver(hist.transactions, first.combinedFile),
                 second.combinedFile)

\* the rows of a batch that fall in one period, as the table stores them
batchIn(r, ym) == insidePeriods(insertRows(EmptyBag, batchOf(r)), {ym})

\* C26: nothing serialises two imports. When two overlapping imports of combined
\* ledgers that touch the same period have both succeeded, the period holds the
\* batch of one of them or the batches of both, one on top of the other; and the
\* table with both is the outcome of neither serial order.
C26_NoCrossRequestLock ==
    pairDone =>
        \A ym \in periodsOf(batchOf(req)) \cap periodsOf(batchOf(parked)) :
            LET now == insidePeriods(transactions, {ym})
            IN  /\ \/ now = batchIn(req, ym)
                   \/ now = batchIn(parked, ym)
                   \/ now = batchIn(req, ym) (+) batchIn(parked, ym)
                /\ now = batchIn(req, ym) (+) batchIn(parked, ym)
                   => /\ transactions # serially(req, parked)
                      /\ transactions # serially(parked, req)

\* C26 witness: two overlapping imports of the same file have succeeded and every
\* row of the file is in the table twice, which neither serial order gives.
C26_Witness ==
    /\ pairDone
    /\ req.combinedFile = "lunch.csv" /\ parked.combinedFile = "lunch.csv"
    /\ \A i \in 1..Len(req.parsed) :
         CopiesIn(transactionValues(req.parsed[i]), transactions) = 2
    /\ transactions # serially(req, parked)
    /\ transactions # serially(parked, req)

\* C27: when two overlapping imports of combined ledgers with no period in common
\* have both succeeded, the table is the one that running them one after the
\* other gives, in either order.
C27_DisjointPeriodsCommute ==
    ( /\ pairDone
      /\ periodsOf(batchOf(req)) \cap periodsOf(batchOf(parked)) = {} )
    => /\ transactions = serially(req, parked)
       /\ transactions = serially(parked, req)

\* C27 witness: two overlapping imports of different months have succeeded over a
\* table that held rows of both months.
C27_Witness ==
    /\ pairDone
    /\ {req.combinedFile, parked.combinedFile} = {"lunch.csv", "salary.csv"}
    /\ \A ym \in periodsOf(req.parsed) \cup periodsOf(parked.parsed) :
         \E r \in BagToSet(hist.transactions) : inPeriod(r, ym)
    /\ \A ym \in periodsOf(req.parsed) \cup periodsOf(parked.parsed) :
         \E r \in BagToSet(transactions) : inPeriod(r, ym)

----------------------------------------------------------------------------
(* Claims about the order of imports *)

\* a row of the combined ledger that stands for the extracted transfer t
realMatch(table, t) ==
    \E r \in BagToSet(table) :
        /\ r.date = t.date
        /\ r.assetName = t.assetName
        /\ r.incomeAmount = t.incomeAmount
        /\ r.category = Furikae
        /\ r.memo # Sentinel

\* the table without the synthetic rows of the given periods
withoutSynthetic(table, periods) ==
    [r \in {x \in BagToSet(table) :
              ~(isSynthetic(x) /\ <<x.year, x.month>> \in periods)} |-> table[r]]

\* the table a successful import of an asset ledger leaves when nothing else runs:
\* the synthetic rows of the touched periods give way to the extracted transfers
\* that no real row stands for
assetImportedOver(table, file) ==
    LET extracted == extractInvestmentTransfers(text(file), FromYear)
        kept == withoutSynthetic(table, periodsOf(extracted))
    IN  insertRows(kept, SelectSeq(extracted, LAMBDA t : ~realMatch(kept, t)))

\* a successful import of one file leaves the table that importedOver and
\* assetImportedOver compute
SerialOutcome ==
    finishedWith(200) =>
        /\ (req.combinedFile # NoFile /\ req.assetFile = NoFile)
             => transactions = importedOver(hist.transactions, req.combinedFile)
        /\ (req.combinedFile = NoFile /\ req.assetFile # NoFile)
             => transactions = assetImportedOver(hist.transactions, req.assetFile)

\* the first two requests since the tables were empty imported first, then second,
\* each alone, and both answered 200
importedInOrder(first, second) ==
    /\ admitted = 2
    /\ finishedWith(200)
    /\ hist.previous.ok
    /\ <<hist.previous.combinedFile, hist.previous.assetFile>> = first
    /\ <<req.combinedFile, req.assetFile>> = second

\* C28: the transactions table does not depend on the order of the two imports:
\* from the empty table, combined ledger c and then asset ledger a leave the rows
\* that a and then c leave, and the other way round.
C28_OrderIndependent ==
    \A c \in CombinedFiles, a \in AssetFiles :
        /\ importedInOrder(<<c, NoFile>>, <<NoFile, a>>)
             => transactions = importedOver(assetImportedOver(EmptyBag, a), c)
        /\ importedInOrder(<<NoFile, a>>, <<c, NoFile>>)
             => transactions = assetImportedOver(importedOver(EmptyBag, c), a)

----------------------------------------------------------------------------
(* Claims about the valuation save *)

\* months counted from year 0
monthIndex(r) == r.year * 12 + r.month

\* the statement that writes the snapshot of the valuation has succeeded
snapshotSaved ==
    /\ val.pc \in {"updateSnapshot", "insertSnapshot"}
    /\ val' # val
    /\ ~(val'.pc = "done" /\ val'.response.status = 500)

\* the snapshots of an account before and after a month, in a table
snapshotsBefore(table, assetName, year, month) ==
    {r \in table : r.assetName = assetName /\ monthIndex(r) < year * 12 + month}

snapshotsAfter(table, assetName, year, month) ==
    {r \in table : r.assetName = assetName /\ monthIndex(r) > year * 12 + month}

\* C29: saving a valuation keeps the opening-balance chain of the mapped account:
\* once the snapshot is written its closing balance is the market value, its
\* opening balance is the closing balance of the account's latest earlier snapshot
\* (its own closing balance when there is none), and the account's earliest later
\* snapshot opens with the saved closing balance.
C29_SaveKeepsChain ==
    [][ snapshotSaved =>
          LET assetName == valAsset(val)
              saved == {r \in assetSnapshots' :
                          snapshotKey(r) = <<assetName, val.year, val.month>>}
              earlier == snapshotsBefore(assetSnapshots', assetName, val.year, val.month)
              later == snapshotsAfter(assetSnapshots', assetName, val.year, val.month)
          IN  /\ Cardinality(saved) = 1
              /\ \A s \in saved :
                   /\ s.closingBalance = val.vals[val.k].marketValue
                   /\ earlier = {} => s.openingBalance = s.closingBalance
                   /\ \A p \in earlier :
                        (\A q \in earlier : monthIndex(q) <= monthIndex(p))
                        => s.openingBalance = p.closingBalance
                   /\ \A n \in later :
                        (\A q \in later : monthIndex(n) <= monthIndex(q))
                        => n.openingBalance = s.closingBalance ]_vars

----------------------------------------------------------------------------
(* Claims about the Gemini quota *)

\* the recorded usage count of today
usageCount == getTodayUsage(geminiUsage).count

\* the call of caller i issues its API request in this step
issuesRequest(i) == analyses[i].pc = "fetch" /\ analyses'[i].pc # "fetch"

\* the call of caller i passes the quota check in this step
passesCheck(i) == analyses[i].pc = "getTodayUsage" /\ analyses'[i].pc = "fetch"

\* the call of caller i returns a failure in this step
fails(i) ==
    /\ analyses[i].pc \notin {"idle", "done"}
    /\ analyses'[i].pc = "done"
    /\ "success" \in DOMAIN analyses'[i] => ~analyses'[i].success

\* a call is let through to the API only while quota remains
NoRequestWithoutQuota ==
    [][\A i \in Callers : passesCheck(i) => usageCount < GEMINI_DAILY_LIMIT]_vars

\* a call that fails leaves the count as it was
FailureDoesNotCount ==
    [][\A i \in Callers : fails(i) => geminiUsage' = geminiUsage]_vars

\* C30: the daily quota is enforced under concurrency: the recorded usage count of
\* the day never exceeds GEMINI_DAILY_LIMIT, a call that starts with no remaining
\* quota issues no API request, and a call whose API request fails or returns
\* empty text does not increment the count.
C30_QuotaEnforced ==
    /\ [](usageCount <= GEMINI_DAILY_LIMIT)
    /\ NoRequestWithoutQuota
    /\ FailureDoesNotCount

====
